---- MODULE Spec2Model ----
(***************************************************************************)
(* Model of the solitaire repository's core:                               *)
(*   - the rules engine of src/rules.py (RuleProfile.is_move_legal,        *)
(*     pass-limit normalisation, passes_remaining), and                    *)
(*   - the greedy Klondike solver of src/scripts/solver.py.                *)
(*                                                                         *)
(* Python values are tagged records; every tag uses its own field name so  *)
(* that values of different Python types are never compared field by       *)
(* field.  Strings are sequences of one-character strings, so that         *)
(* strip(), lower() and int(token, 10) are computed, not assumed.          *)
(***************************************************************************)
EXTENDS Integers, Sequences, FiniteSets, TLC

----------------------------------------------------------------------------
(* Bounds of the model                                                     *)

\* Largest integer pass limit configured on a profile.
MaxPassLimit == 3
\* Largest draw_count a move declares.
MaxDraw == 3
\* Largest finite pass_limit a solver is built with.
MaxSolverPasses == 1
\* Direct calls are made while the solver has counted fewer moves than this.
MaxMoves == 3
\* The primitives are called directly while the solver has counted fewer
\* moves than this.
MaxPrimitiveMoves == 1
\* Largest number of decks one solver's generator shuffles.
MaxDeals == 2
\* Largest max_steps given to play().
MaxSteps == 4

----------------------------------------------------------------------------
(* Python values                                                           *)

Absent == [t |-> "absent"]
PyNone == [t |-> "None"]
PyBool(b) == [t |-> "bool", b |-> b]
PyInt(i) == [t |-> "int", i |-> i]
PyStr(s) == [t |-> "str", s |-> s]
\* A finite float is kept as twice its value (so 3.5 is 7 and 4.0 is 8).
PyFloat(twice) == [t |-> "float", twice |-> twice]
\* -0.0: a zero that json.dumps writes with its sign.
PyNegativeZero == [t |-> "float", twice |-> 0, sign |-> "-"]
PyNaN == [t |-> "nan"]
PyInf == [t |-> "inf"]

Return(v) == [kind |-> "return", value |-> v]
Raise(e) == [kind |-> "raise", exc |-> e]

IsNumber(v) == v.t \in {"bool", "int", "float"}
\* Twice the numeric value of a bool, int or finite float.
Twice(v) ==
    CASE v.t = "bool" -> (IF v.b THEN 2 ELSE 0)
      [] v.t = "int" -> 2 * v.i
      [] v.t = "float" -> v.twice

\* Python's ==
PyEq(a, b) ==
    IF IsNumber(a) /\ IsNumber(b) THEN Twice(a) = Twice(b)
    ELSE IF a.t = "nan" \/ b.t = "nan" THEN FALSE
    ELSE a = b

\* Python's truth value
Truthy(v) ==
    CASE v.t = "None" -> FALSE
      [] v.t = "absent" -> FALSE
      [] v.t = "bool" -> v.b
      [] v.t = "int" -> v.i # 0
      [] v.t = "float" -> v.twice # 0
      [] v.t = "str" -> Len(v.s) > 0
      [] OTHER -> TRUE

\* Python's `a or b`
PyOr(a, b) == IF Truthy(a) THEN a ELSE b

----------------------------------------------------------------------------
(* Strings                                                                 *)

\* A character is a string: itself when it is "\t", "\n", "\f", "\r" or a
\* printable character of ASCII or Latin-1 (but the grave accent, which no
\* string of this language can hold), and otherwise the name of its code
\* point, U+ and four to six hexadecimal digits ("U+000B", "U+1D7CE").

\* The code points of the characters written as themselves.
RawOrd ==
    LET chars == "\t\n\f\r !\"#$%&'()*+,-./0123456789:;<=>?@ABCDEFGHIJKLMNOPQRSTUVWXYZ[\\]^_abcdefghijklmnopqrstuvwxyz{|}~¡¢£¤¥¦§¨©ª«¬®¯°±²³´µ¶·¸¹º»¼½¾¿ÀÁÂÃÄÅÆÇÈÉÊËÌÍÎÏÐÑÒÓÔÕÖ×ØÙÚÛÜÝÞßàáâãäåæçèéêëìíîïðñòóôõö÷øùúûüýþÿ"
        codes == <<9, 10, 12, 13>> \o [i \in 1..64 |-> 31 + i] \o [i \in 1..30 |-> 96 + i]
                 \o [i \in 1..12 |-> 160 + i] \o [i \in 1..82 |-> 173 + i]
    IN  [c \in {SubSeq(chars, i, i) : i \in 1..Len(chars)} |->
            codes[CHOOSE i \in 1..Len(chars) : SubSeq(chars, i, i) = c]]

\* The number that hexadecimal digits, in either case, write.
RECURSIVE HexNumber(_, _)
HexNumber(digits, acc) ==
    LET value(c) ==
            CHOOSE d \in 0..15 :
                c \in {SubSeq("0123456789abcdef", d + 1, d + 1),
                       SubSeq("0123456789ABCDEF", d + 1, d + 1)}
    IN  IF Len(digits) = 0 THEN acc
        ELSE HexNumber(Tail(digits), 16 * acc + value(Head(digits)))

\* n in hexadecimal, with the given digits, on at least width digits.
RECURSIVE HexText(_, _, _)
HexText(n, width, digits) ==
    (IF n >= 16 \/ width > 1 THEN HexText(n \div 16, width - 1, digits) ELSE "")
    \o SubSeq(digits, (n % 16) + 1, (n % 16) + 1)

\* ord(c)
Ord(c) == IF c \in DOMAIN RawOrd THEN RawOrd[c] ELSE HexNumber(SubSeq(c, 3, Len(c)), 0)

\* chr(n)
Chr(n) ==
    LET named(raw) ==
            IF raw = {} THEN "U+" \o HexText(n, 4, "0123456789ABCDEF")
            ELSE CHOOSE c \in raw : TRUE
    IN  named({c \in DOMAIN RawOrd : RawOrd[c] = n})

\* The code points str.lower() changes into one other code point (Unicode
\* 14), as runs <<first, last, step, shift>>: every step-th code point from
\* first to last becomes the one that lies shift further.
LowerRuns ==
    {<<65, 90, 1, 32>>, <<192, 214, 1, 32>>, <<216, 222, 1, 32>>, <<256, 302, 2, 1>>,
     <<306, 310, 2, 1>>, <<313, 327, 2, 1>>, <<330, 374, 2, 1>>, <<376, 376, 1, -121>>,
     <<377, 381, 2, 1>>, <<385, 385, 1, 210>>, <<386, 388, 2, 1>>, <<390, 390, 1, 206>>,
     <<391, 391, 1, 1>>, <<393, 394, 1, 205>>, <<395, 395, 1, 1>>, <<398, 398, 1, 79>>,
     <<399, 399, 1, 202>>, <<400, 400, 1, 203>>, <<401, 401, 1, 1>>, <<403, 403, 1, 205>>,
     <<404, 404, 1, 207>>, <<406, 406, 1, 211>>, <<407, 407, 1, 209>>, <<408, 408, 1, 1>>,
     <<412, 412, 1, 211>>, <<413, 413, 1, 213>>, <<415, 415, 1, 214>>, <<416, 420, 2, 1>>,
     <<422, 422, 1, 218>>, <<423, 423, 1, 1>>, <<425, 425, 1, 218>>, <<428, 428, 1, 1>>,
     <<430, 430, 1, 218>>, <<431, 431, 1, 1>>, <<433, 434, 1, 217>>, <<435, 437, 2, 1>>,
     <<439, 439, 1, 219>>, <<440, 440, 1, 1>>, <<444, 444, 1, 1>>, <<452, 452, 1, 2>>,
     <<453, 453, 1, 1>>, <<455, 455, 1, 2>>, <<456, 456, 1, 1>>, <<458, 458, 1, 2>>,
     <<459, 475, 2, 1>>, <<478, 494, 2, 1>>, <<497, 497, 1, 2>>, <<498, 500, 2, 1>>,
     <<502, 502, 1, -97>>, <<503, 503, 1, -56>>, <<504, 542, 2, 1>>, <<544, 544, 1, -130>>,
     <<546, 562, 2, 1>>, <<570, 570, 1, 10795>>, <<571, 571, 1, 1>>, <<573, 573, 1, -163>>,
     <<574, 574, 1, 10792>>, <<577, 577, 1, 1>>, <<579, 579, 1, -195>>, <<580, 580, 1, 69>>,
     <<581, 581, 1, 71>>, <<582, 590, 2, 1>>, <<880, 882, 2, 1>>, <<886, 886, 1, 1>>,
     <<895, 895, 1, 116>>, <<902, 902, 1, 38>>, <<904, 906, 1, 37>>, <<908, 908, 1, 64>>,
     <<910, 911, 1, 63>>, <<913, 929, 1, 32>>, <<931, 939, 1, 32>>, <<975, 975, 1, 8>>,
     <<984, 1006, 2, 1>>, <<1012, 1012, 1, -60>>, <<1015, 1015, 1, 1>>, <<1017, 1017, 1, -7>>,
     <<1018, 1018, 1, 1>>, <<1021, 1023, 1, -130>>, <<1024, 1039, 1, 80>>, <<1040, 1071, 1, 32>>,
     <<1120, 1152, 2, 1>>, <<1162, 1214, 2, 1>>, <<1216, 1216, 1, 15>>, <<1217, 1229, 2, 1>>,
     <<1232, 1326, 2, 1>>, <<1329, 1366, 1, 48>>, <<4256, 4293, 1, 7264>>, <<4295, 4295, 1, 7264>>,
     <<4301, 4301, 1, 7264>>, <<5024, 5103, 1, 38864>>, <<5104, 5109, 1, 8>>, <<7312, 7354, 1, -3008>>,
     <<7357, 7359, 1, -3008>>, <<7680, 7828, 2, 1>>, <<7838, 7838, 1, -7615>>, <<7840, 7934, 2, 1>>,
     <<7944, 7951, 1, -8>>, <<7960, 7965, 1, -8>>, <<7976, 7983, 1, -8>>, <<7992, 7999, 1, -8>>,
     <<8008, 8013, 1, -8>>, <<8025, 8031, 2, -8>>, <<8040, 8047, 1, -8>>, <<8072, 8079, 1, -8>>,
     <<8088, 8095, 1, -8>>, <<8104, 8111, 1, -8>>, <<8120, 8121, 1, -8>>, <<8122, 8123, 1, -74>>,
     <<8124, 8124, 1, -9>>, <<8136, 8139, 1, -86>>, <<8140, 8140, 1, -9>>, <<8152, 8153, 1, -8>>,
     <<8154, 8155, 1, -100>>, <<8168, 8169, 1, -8>>, <<8170, 8171, 1, -112>>, <<8172, 8172, 1, -7>>,
     <<8184, 8185, 1, -128>>, <<8186, 8187, 1, -126>>, <<8188, 8188, 1, -9>>, <<8486, 8486, 1, -7517>>,
     <<8490, 8490, 1, -8383>>, <<8491, 8491, 1, -8262>>, <<8498, 8498, 1, 28>>, <<8544, 8559, 1, 16>>,
     <<8579, 8579, 1, 1>>, <<9398, 9423, 1, 26>>, <<11264, 11311, 1, 48>>, <<11360, 11360, 1, 1>>,
     <<11362, 11362, 1, -10743>>, <<11363, 11363, 1, -3814>>, <<11364, 11364, 1, -10727>>, <<11367, 11371, 2, 1>>,
     <<11373, 11373, 1, -10780>>, <<11374, 11374, 1, -10749>>, <<11375, 11375, 1, -10783>>, <<11376, 11376, 1, -10782>>,
     <<11378, 11378, 1, 1>>, <<11381, 11381, 1, 1>>, <<11390, 11391, 1, -10815>>, <<11392, 11490, 2, 1>>,
     <<11499, 11501, 2, 1>>, <<11506, 11506, 1, 1>>, <<42560, 42604, 2, 1>>, <<42624, 42650, 2, 1>>,
     <<42786, 42798, 2, 1>>, <<42802, 42862, 2, 1>>, <<42873, 42875, 2, 1>>, <<42877, 42877, 1, -35332>>,
     <<42878, 42886, 2, 1>>, <<42891, 42891, 1, 1>>, <<42893, 42893, 1, -42280>>, <<42896, 42898, 2, 1>>,
     <<42902, 42920, 2, 1>>, <<42922, 42922, 1, -42308>>, <<42923, 42923, 1, -42319>>, <<42924, 42924, 1, -42315>>,
     <<42925, 42925, 1, -42305>>, <<42926, 42926, 1, -42308>>, <<42928, 42928, 1, -42258>>, <<42929, 42929, 1, -42282>>,
     <<42930, 42930, 1, -42261>>, <<42931, 42931, 1, 928>>, <<42932, 42946, 2, 1>>, <<42948, 42948, 1, -48>>,
     <<42949, 42949, 1, -42307>>, <<42950, 42950, 1, -35384>>, <<42951, 42953, 2, 1>>, <<42960, 42960, 1, 1>>,
     <<42966, 42968, 2, 1>>, <<42997, 42997, 1, 1>>, <<65313, 65338, 1, 32>>, <<66560, 66599, 1, 40>>,
     <<66736, 66771, 1, 40>>, <<66928, 66964, 2, 39>>, <<66929, 66937, 2, 39>>, <<66941, 66953, 2, 39>>,
     <<66957, 66961, 2, 39>>, <<66965, 66965, 1, 39>>, <<68736, 68786, 1, 64>>, <<71840, 71871, 1, 32>>,
     <<93760, 93791, 1, 32>>, <<125184, 125217, 1, 34>>}

\* str.lower(): each character becomes its lower-case form.  U+0130 becomes
\* two characters, and the capital sigma U+03A3 becomes the final sigma
\* U+03C2 when a cased character comes before it and none after it, the
\* characters that case ignores being skipped, and U+03C3 otherwise.
Lower(s) ==
    LET \* the cased characters that case does not ignore, as ranges
        cased ==
            {<<65, 90>>, <<97, 122>>, <<170, 170>>, <<181, 181>>, <<186, 186>>, <<192, 214>>,
             <<216, 246>>, <<248, 442>>, <<444, 447>>, <<452, 659>>, <<661, 687>>, <<880, 883>>,
             <<886, 887>>, <<891, 893>>, <<895, 895>>, <<902, 902>>, <<904, 906>>, <<908, 908>>,
             <<910, 929>>, <<931, 1013>>, <<1015, 1153>>, <<1162, 1327>>, <<1329, 1366>>, <<1376, 1416>>,
             <<4256, 4293>>, <<4295, 4295>>, <<4301, 4301>>, <<4304, 4346>>, <<4349, 4351>>, <<5024, 5109>>,
             <<5112, 5117>>, <<7296, 7304>>, <<7312, 7354>>, <<7357, 7359>>, <<7424, 7467>>, <<7531, 7543>>,
             <<7545, 7578>>, <<7680, 7957>>, <<7960, 7965>>, <<7968, 8005>>, <<8008, 8013>>, <<8016, 8023>>,
             <<8025, 8025>>, <<8027, 8027>>, <<8029, 8029>>, <<8031, 8061>>, <<8064, 8116>>, <<8118, 8124>>,
             <<8126, 8126>>, <<8130, 8132>>, <<8134, 8140>>, <<8144, 8147>>, <<8150, 8155>>, <<8160, 8172>>,
             <<8178, 8180>>, <<8182, 8188>>, <<8450, 8450>>, <<8455, 8455>>, <<8458, 8467>>, <<8469, 8469>>,
             <<8473, 8477>>, <<8484, 8484>>, <<8486, 8486>>, <<8488, 8488>>, <<8490, 8493>>, <<8495, 8500>>,
             <<8505, 8505>>, <<8508, 8511>>, <<8517, 8521>>, <<8526, 8526>>, <<8544, 8575>>, <<8579, 8580>>,
             <<9398, 9449>>, <<11264, 11387>>, <<11390, 11492>>, <<11499, 11502>>, <<11506, 11507>>, <<11520, 11557>>,
             <<11559, 11559>>, <<11565, 11565>>, <<42560, 42605>>, <<42624, 42651>>, <<42786, 42863>>, <<42865, 42887>>,
             <<42891, 42894>>, <<42896, 42954>>, <<42960, 42961>>, <<42963, 42963>>, <<42965, 42969>>, <<42997, 42998>>,
             <<43002, 43002>>, <<43824, 43866>>, <<43872, 43880>>, <<43888, 43967>>, <<64256, 64262>>, <<64275, 64279>>,
             <<65313, 65338>>, <<65345, 65370>>, <<66560, 66639>>, <<66736, 66771>>, <<66776, 66811>>, <<66928, 66938>>,
             <<66940, 66954>>, <<66956, 66962>>, <<66964, 66965>>, <<66967, 66977>>, <<66979, 66993>>, <<66995, 67001>>,
             <<67003, 67004>>, <<68736, 68786>>, <<68800, 68850>>, <<71840, 71903>>, <<93760, 93823>>, <<119808, 119892>>,
             <<119894, 119964>>, <<119966, 119967>>, <<119970, 119970>>, <<119973, 119974>>, <<119977, 119980>>, <<119982, 119993>>,
             <<119995, 119995>>, <<119997, 120003>>, <<120005, 120069>>, <<120071, 120074>>, <<120077, 120084>>, <<120086, 120092>>,
             <<120094, 120121>>, <<120123, 120126>>, <<120128, 120132>>, <<120134, 120134>>, <<120138, 120144>>, <<120146, 120485>>,
             <<120488, 120512>>, <<120514, 120538>>, <<120540, 120570>>, <<120572, 120596>>, <<120598, 120628>>, <<120630, 120654>>,
             <<120656, 120686>>, <<120688, 120712>>, <<120714, 120744>>, <<120746, 120770>>, <<120772, 120779>>, <<122624, 122633>>,
             <<122635, 122654>>, <<125184, 125251>>, <<127280, 127305>>, <<127312, 127337>>, <<127344, 127369>>}
        \* the characters that case ignores, as ranges
        ignored ==
            {<<39, 39>>, <<46, 46>>, <<58, 58>>, <<94, 94>>, <<96, 96>>, <<168, 168>>,
             <<173, 173>>, <<175, 175>>, <<180, 180>>, <<183, 184>>, <<688, 879>>, <<884, 885>>,
             <<890, 890>>, <<900, 901>>, <<903, 903>>, <<1155, 1161>>, <<1369, 1369>>, <<1375, 1375>>,
             <<1425, 1469>>, <<1471, 1471>>, <<1473, 1474>>, <<1476, 1477>>, <<1479, 1479>>, <<1524, 1524>>,
             <<1536, 1541>>, <<1552, 1562>>, <<1564, 1564>>, <<1600, 1600>>, <<1611, 1631>>, <<1648, 1648>>,
             <<1750, 1757>>, <<1759, 1768>>, <<1770, 1773>>, <<1807, 1807>>, <<1809, 1809>>, <<1840, 1866>>,
             <<1958, 1968>>, <<2027, 2037>>, <<2042, 2042>>, <<2045, 2045>>, <<2070, 2093>>, <<2137, 2139>>,
             <<2184, 2184>>, <<2192, 2193>>, <<2200, 2207>>, <<2249, 2306>>, <<2362, 2362>>, <<2364, 2364>>,
             <<2369, 2376>>, <<2381, 2381>>, <<2385, 2391>>, <<2402, 2403>>, <<2417, 2417>>, <<2433, 2433>>,
             <<2492, 2492>>, <<2497, 2500>>, <<2509, 2509>>, <<2530, 2531>>, <<2558, 2558>>, <<2561, 2562>>,
             <<2620, 2620>>, <<2625, 2626>>, <<2631, 2632>>, <<2635, 2637>>, <<2641, 2641>>, <<2672, 2673>>,
             <<2677, 2677>>, <<2689, 2690>>, <<2748, 2748>>, <<2753, 2757>>, <<2759, 2760>>, <<2765, 2765>>,
             <<2786, 2787>>, <<2810, 2815>>, <<2817, 2817>>, <<2876, 2876>>, <<2879, 2879>>, <<2881, 2884>>,
             <<2893, 2893>>, <<2901, 2902>>, <<2914, 2915>>, <<2946, 2946>>, <<3008, 3008>>, <<3021, 3021>>,
             <<3072, 3072>>, <<3076, 3076>>, <<3132, 3132>>, <<3134, 3136>>, <<3142, 3144>>, <<3146, 3149>>,
             <<3157, 3158>>, <<3170, 3171>>, <<3201, 3201>>, <<3260, 3260>>, <<3263, 3263>>, <<3270, 3270>>,
             <<3276, 3277>>, <<3298, 3299>>, <<3328, 3329>>, <<3387, 3388>>, <<3393, 3396>>, <<3405, 3405>>,
             <<3426, 3427>>, <<3457, 3457>>, <<3530, 3530>>, <<3538, 3540>>, <<3542, 3542>>, <<3633, 3633>>,
             <<3636, 3642>>, <<3654, 3662>>, <<3761, 3761>>, <<3764, 3772>>, <<3782, 3782>>, <<3784, 3789>>,
             <<3864, 3865>>, <<3893, 3893>>, <<3895, 3895>>, <<3897, 3897>>, <<3953, 3966>>, <<3968, 3972>>,
             <<3974, 3975>>, <<3981, 3991>>, <<3993, 4028>>, <<4038, 4038>>, <<4141, 4144>>, <<4146, 4151>>,
             <<4153, 4154>>, <<4157, 4158>>, <<4184, 4185>>, <<4190, 4192>>, <<4209, 4212>>, <<4226, 4226>>,
             <<4229, 4230>>, <<4237, 4237>>, <<4253, 4253>>, <<4348, 4348>>, <<4957, 4959>>, <<5906, 5908>>,
             <<5938, 5939>>, <<5970, 5971>>, <<6002, 6003>>, <<6068, 6069>>, <<6071, 6077>>, <<6086, 6086>>,
             <<6089, 6099>>, <<6103, 6103>>, <<6109, 6109>>, <<6155, 6159>>, <<6211, 6211>>, <<6277, 6278>>,
             <<6313, 6313>>, <<6432, 6434>>, <<6439, 6440>>, <<6450, 6450>>, <<6457, 6459>>, <<6679, 6680>>,
             <<6683, 6683>>, <<6742, 6742>>, <<6744, 6750>>, <<6752, 6752>>, <<6754, 6754>>, <<6757, 6764>>,
             <<6771, 6780>>, <<6783, 6783>>, <<6823, 6823>>, <<6832, 6862>>, <<6912, 6915>>, <<6964, 6964>>,
             <<6966, 6970>>, <<6972, 6972>>, <<6978, 6978>>, <<7019, 7027>>, <<7040, 7041>>, <<7074, 7077>>,
             <<7080, 7081>>, <<7083, 7085>>, <<7142, 7142>>, <<7144, 7145>>, <<7149, 7149>>, <<7151, 7153>>,
             <<7212, 7219>>, <<7222, 7223>>, <<7288, 7293>>, <<7376, 7378>>, <<7380, 7392>>, <<7394, 7400>>,
             <<7405, 7405>>, <<7412, 7412>>, <<7416, 7417>>, <<7468, 7530>>, <<7544, 7544>>, <<7579, 7679>>,
             <<8125, 8125>>, <<8127, 8129>>, <<8141, 8143>>, <<8157, 8159>>, <<8173, 8175>>, <<8189, 8190>>,
             <<8203, 8207>>, <<8216, 8217>>, <<8228, 8228>>, <<8231, 8231>>, <<8234, 8238>>, <<8288, 8292>>,
             <<8294, 8303>>, <<8305, 8305>>, <<8319, 8319>>, <<8336, 8348>>, <<8400, 8432>>, <<11388, 11389>>,
             <<11503, 11505>>, <<11631, 11631>>, <<11647, 11647>>, <<11744, 11775>>, <<11823, 11823>>, <<12293, 12293>>,
             <<12330, 12333>>, <<12337, 12341>>, <<12347, 12347>>, <<12441, 12446>>, <<12540, 12542>>, <<40981, 40981>>,
             <<42232, 42237>>, <<42508, 42508>>, <<42607, 42610>>, <<42612, 42621>>, <<42623, 42623>>, <<42652, 42655>>,
             <<42736, 42737>>, <<42752, 42785>>, <<42864, 42864>>, <<42888, 42890>>, <<42994, 42996>>, <<43000, 43001>>,
             <<43010, 43010>>, <<43014, 43014>>, <<43019, 43019>>, <<43045, 43046>>, <<43052, 43052>>, <<43204, 43205>>,
             <<43232, 43249>>, <<43263, 43263>>, <<43302, 43309>>, <<43335, 43345>>, <<43392, 43394>>, <<43443, 43443>>,
             <<43446, 43449>>, <<43452, 43453>>, <<43471, 43471>>, <<43493, 43494>>, <<43561, 43566>>, <<43569, 43570>>,
             <<43573, 43574>>, <<43587, 43587>>, <<43596, 43596>>, <<43632, 43632>>, <<43644, 43644>>, <<43696, 43696>>,
             <<43698, 43700>>, <<43703, 43704>>, <<43710, 43711>>, <<43713, 43713>>, <<43741, 43741>>, <<43756, 43757>>,
             <<43763, 43764>>, <<43766, 43766>>, <<43867, 43871>>, <<43881, 43883>>, <<44005, 44005>>, <<44008, 44008>>,
             <<44013, 44013>>, <<64286, 64286>>, <<64434, 64450>>, <<65024, 65039>>, <<65043, 65043>>, <<65056, 65071>>,
             <<65106, 65106>>, <<65109, 65109>>, <<65279, 65279>>, <<65287, 65287>>, <<65294, 65294>>, <<65306, 65306>>,
             <<65342, 65342>>, <<65344, 65344>>, <<65392, 65392>>, <<65438, 65439>>, <<65507, 65507>>, <<65529, 65531>>,
             <<66045, 66045>>, <<66272, 66272>>, <<66422, 66426>>, <<67456, 67461>>, <<67463, 67504>>, <<67506, 67514>>,
             <<68097, 68099>>, <<68101, 68102>>, <<68108, 68111>>, <<68152, 68154>>, <<68159, 68159>>, <<68325, 68326>>,
             <<68900, 68903>>, <<69291, 69292>>, <<69446, 69456>>, <<69506, 69509>>, <<69633, 69633>>, <<69688, 69702>>,
             <<69744, 69744>>, <<69747, 69748>>, <<69759, 69761>>, <<69811, 69814>>, <<69817, 69818>>, <<69821, 69821>>,
             <<69826, 69826>>, <<69837, 69837>>, <<69888, 69890>>, <<69927, 69931>>, <<69933, 69940>>, <<70003, 70003>>,
             <<70016, 70017>>, <<70070, 70078>>, <<70089, 70092>>, <<70095, 70095>>, <<70191, 70193>>, <<70196, 70196>>,
             <<70198, 70199>>, <<70206, 70206>>, <<70367, 70367>>, <<70371, 70378>>, <<70400, 70401>>, <<70459, 70460>>,
             <<70464, 70464>>, <<70502, 70508>>, <<70512, 70516>>, <<70712, 70719>>, <<70722, 70724>>, <<70726, 70726>>,
             <<70750, 70750>>, <<70835, 70840>>, <<70842, 70842>>, <<70847, 70848>>, <<70850, 70851>>, <<71090, 71093>>,
             <<71100, 71101>>, <<71103, 71104>>, <<71132, 71133>>, <<71219, 71226>>, <<71229, 71229>>, <<71231, 71232>>,
             <<71339, 71339>>, <<71341, 71341>>, <<71344, 71349>>, <<71351, 71351>>, <<71453, 71455>>, <<71458, 71461>>,
             <<71463, 71467>>, <<71727, 71735>>, <<71737, 71738>>, <<71995, 71996>>, <<71998, 71998>>, <<72003, 72003>>,
             <<72148, 72151>>, <<72154, 72155>>, <<72160, 72160>>, <<72193, 72202>>, <<72243, 72248>>, <<72251, 72254>>,
             <<72263, 72263>>, <<72273, 72278>>, <<72281, 72283>>, <<72330, 72342>>, <<72344, 72345>>, <<72752, 72758>>,
             <<72760, 72765>>, <<72767, 72767>>, <<72850, 72871>>, <<72874, 72880>>, <<72882, 72883>>, <<72885, 72886>>,
             <<73009, 73014>>, <<73018, 73018>>, <<73020, 73021>>, <<73023, 73029>>, <<73031, 73031>>, <<73104, 73105>>,
             <<73109, 73109>>, <<73111, 73111>>, <<73459, 73460>>, <<78896, 78904>>, <<92912, 92916>>, <<92976, 92982>>,
             <<92992, 92995>>, <<94031, 94031>>, <<94095, 94111>>, <<94176, 94177>>, <<94179, 94180>>, <<110576, 110579>>,
             <<110581, 110587>>, <<110589, 110590>>, <<113821, 113822>>, <<113824, 113827>>, <<118528, 118573>>, <<118576, 118598>>,
             <<119143, 119145>>, <<119155, 119170>>, <<119173, 119179>>, <<119210, 119213>>, <<119362, 119364>>, <<121344, 121398>>,
             <<121403, 121452>>, <<121461, 121461>>, <<121476, 121476>>, <<121499, 121503>>, <<121505, 121519>>, <<122880, 122886>>,
             <<122888, 122904>>, <<122907, 122913>>, <<122915, 122916>>, <<122918, 122922>>, <<123184, 123197>>, <<123566, 123566>>,
             <<123628, 123631>>, <<125136, 125142>>, <<125252, 125259>>, <<127995, 127999>>, <<917505, 917505>>, <<917536, 917631>>,
             <<917760, 917999>>}
        in(n, ranges) == \E r \in ranges : r[1] <= n /\ n <= r[2]
        \* whether the nearest character that case does not ignore, from j on
        \* and going by step, is a cased one
        RECURSIVE casedFrom(_, _)
        casedFrom(j, step) ==
            LET is(n) == IF in(n, ignored) THEN casedFrom(j + step, step) ELSE in(n, cased)
            IN  j \in 1..Len(s) /\ is(Ord(s[j]))
        lowered(n) ==
            LET shifted(runs) == IF runs = {} THEN n ELSE n + (CHOOSE r \in runs : TRUE)[4]
            IN  shifted({r \in LowerRuns : r[1] <= n /\ n <= r[2] /\ (n - r[1]) % r[3] = 0})
        \* a capital sigma is final when a cased character precedes it and
        \* none follows it
        at(i) ==
            LET other(n, low) == IF low = n THEN s[i] ELSE Chr(low)
                one(n) ==
                    CASE n < 65 \/ n \in 91..127 -> <<s[i]>>
                      [] n \in 65..90 -> <<Chr(n + 32)>>
                      [] n = 304 -> <<"i", Chr(775)>>
                      [] n = 931 ->
                            <<Chr(IF \A step \in {-1, 1} : casedFrom(i + step, step) = (step = -1)
                                  THEN 962 ELSE 963)>>
                      [] n > 127 /\ n \notin {304, 931} -> <<other(n, lowered(n))>>
            IN  one(Ord(s[i]))
        RECURSIVE from(_)
        from(i) == IF i > Len(s) THEN <<>> ELSE at(i) \o from(i + 1)
    IN  from(1)

\* The code points str.strip() removes (str.isspace): the six of ASCII, the
\* four separators U+001C..U+001F, U+0085, U+00A0 and the Unicode spaces.
Whitespace ==
    {9, 10, 11, 12, 13, 28, 29, 30, 31, 32, 133, 160, 5760, 8232, 8233, 8239, 8287, 12288}
    \cup 8192..8202

\* The whitespace int() skips around a number: not the four separators.
IntWhitespace == Whitespace \ 28..31

\* s without the characters of blanks it starts with, or ends with.
RECURSIVE LStrip(_, _)
LStrip(s, blanks) ==
    IF s # <<>> /\ Ord(Head(s)) \in blanks THEN LStrip(Tail(s), blanks) ELSE s

RECURSIVE RStrip(_, _)
RStrip(s, blanks) ==
    IF s # <<>> /\ Ord(s[Len(s)]) \in blanks THEN RStrip(SubSeq(s, 1, Len(s) - 1), blanks)
    ELSE s

\* str.strip()
Strip(s) == RStrip(LStrip(s, Whitespace), Whitespace)

\* The code points of the digits zero of Unicode (category Nd, Unicode 14):
\* the nine digits that follow each of them are its digits one to nine.
DecimalZeros ==
    {48, 1632, 1776, 1984, 2406, 2534, 2662, 2790, 2918, 3046,
     3174, 3302, 3430, 3558, 3664, 3792, 3872, 4160, 4240, 6112,
     6160, 6470, 6608, 6784, 6800, 6992, 7088, 7232, 7248, 42528,
     43216, 43264, 43472, 43504, 43600, 44016, 65296, 66720, 68912, 69734,
     69872, 69942, 70096, 70384, 70736, 70864, 71248, 71360, 71472, 71904,
     72016, 72784, 73040, 73120, 92768, 92864, 93008, 120782, 120792, 120802,
     120812, 120822, 123200, 123632, 125264, 130032}

\* The value int() gives a character as a decimal digit, -1 when it has none.
DigitValue(c) ==
    LET value(n, zeros) == IF zeros = {} THEN -1 ELSE n - (CHOOSE zero \in zeros : TRUE)
        digit(n) == value(n, {zero \in DecimalZeros : n - zero \in 0..9})
    IN  digit(Ord(c))

RECURSIVE DigitsValue(_, _)
DigitsValue(s, acc) ==
    IF s = <<>> THEN acc
    ELSE IF Head(s) = "_" THEN DigitsValue(Tail(s), acc)
    ELSE DigitsValue(Tail(s), 10 * acc + DigitValue(Head(s)))

\* Digits, with single underscores allowed between two digits.
WellFormedDigits(s) ==
    /\ s # <<>>
    /\ \A i \in DOMAIN s : s[i] = "_" \/ DigitValue(s[i]) >= 0
    /\ s[1] # "_" /\ s[Len(s)] # "_"
    /\ \A i \in 1..(Len(s) - 1) : ~(s[i] = "_" /\ s[i + 1] = "_")

\* int(token, 10): the parsed integer, or a failure (ValueError).
ParseInt(token) ==
    LET value(digits, negative) ==
            IF WellFormedDigits(digits)
            THEN [ok |-> TRUE, v |-> (IF negative THEN -1 ELSE 1) * DigitsValue(digits, 0)]
            ELSE [ok |-> FALSE]
        parse(t) ==
            IF t # <<>> /\ Head(t) \in {"+", "-"} THEN value(Tail(t), Head(t) = "-")
            ELSE value(t, FALSE)
    IN  parse(RStrip(LStrip(token, IntWhitespace), IntWhitespace))

----------------------------------------------------------------------------
(* String constants used by the rules engine and by the inputs             *)

s_type_draw == <<"d", "r", "a", "w">>
s_stock_pass == <<"s", "t", "o", "c", "k", "_", "p", "a", "s", "s">>
s_supermove == <<"s", "u", "p", "e", "r", "m", "o", "v", "e">>
s_foundation_to_tableau == <<"f", "o", "u", "n", "d", "a", "t", "i", "o", "n", "_", "t", "o", "_", "t", "a", "b", "l", "e", "a", "u">>
s_peek == <<"p", "e", "e", "k">>
s_autoplay == <<"a", "u", "t", "o", "p", "l", "a", "y">>
s_undo == <<"u", "n", "d", "o">>
s_custom == <<"c", "u", "s", "t", "o", "m">>
s_unlimited == <<"u", "n", "l", "i", "m", "i", "t", "e", "d">>
s_infinite == <<"i", "n", "f", "i", "n", "i", "t", "e">>
s_max_relax == <<"m", "a", "x", "_", "r", "e", "l", "a", "x">>
s_three == <<"t", "h", "r", "e", "e">>
s_triple == <<"t", "r", "i", "p", "l", "e">>
s_one == <<"o", "n", "e">>
s_single == <<"s", "i", "n", "g", "l", "e">>
s_none == <<"n", "o", "n", "e">>
s_standard == <<"s", "t", "a", "n", "d", "a", "r", "d">>
s_relaxed == <<"r", "e", "l", "a", "x", "e", "d">>
s_5 == <<"5">>
s_bogus == <<"b", "o", "g", "u", "s">>
s_empty == <<>>

----------------------------------------------------------------------------
(* src/rules.py                                                            *)

\* _get_value on a mapping: the mapping's value, or the default when the key
\* is missing (a key that is present with the value None yields None).
GetValue(obj, key, default) == IF obj[key] = Absent THEN default ELSE obj[key]

PASS_LIMITS ==
    (s_unlimited :> PyNone) @@ (s_infinite :> PyNone) @@ (s_max_relax :> PyNone) @@
    (s_three :> PyInt(3)) @@ (s_triple :> PyInt(3)) @@
    (s_one :> PyInt(1)) @@ (s_single :> PyInt(1)) @@ (s_none :> PyInt(0))

SUPERMOVE_STRENGTH == (s_none :> 0) @@ (s_standard :> 1) @@ (s_relaxed :> 2)

\* dict.get(key, default) on SUPERMOVE_STRENGTH
StrengthGet(token, default) ==
    IF token \in DOMAIN SUPERMOVE_STRENGTH THEN SUPERMOVE_STRENGTH[token] ELSE default

\* int(float): truncation toward zero of a float kept as twice its value.
TruncFloat(twice) == IF twice >= 0 THEN twice \div 2 ELSE 0 - ((0 - twice) \div 2)

\* _coerce_non_negative_int(value, default): a plain non-negative integer.
CoerceNonNegativeInt(value, default) ==
    CASE value.t = "None" -> default
      [] value.t = "bool" -> default
      [] value.t = "int" -> (IF value.i >= 0 THEN value.i ELSE default)
      [] value.t \in {"nan", "inf", "-inf"} -> default
      [] value.t = "float" ->
            (IF TruncFloat(value.twice) >= 0 THEN TruncFloat(value.twice) ELSE default)
      [] value.t = "str" ->
            LET number(parsed) ==
                    IF ~parsed.ok THEN default
                    ELSE IF parsed.v >= 0 THEN parsed.v ELSE default
                coerced(token) == IF token = <<>> THEN default ELSE number(ParseInt(token))
            IN  coerced(Strip(value.s))
      [] OTHER -> default

\* A normalisation that compares the string as it was given.
NormalisePassLimitVerbatim(value) ==
    CASE value.t = "None" -> Return(PyNone)
      [] value.t = "bool" -> Raise("TypeError")
      [] value.t = "int" ->
            (IF value.i < 0 THEN Raise("ValueError") ELSE Return(PyInt(value.i)))
      [] value.t = "str" ->
            LET number(parsed) ==
                    IF ~parsed.ok THEN Raise("ValueError")
                    ELSE IF parsed.v < 0 THEN Raise("ValueError")
                    ELSE Return(PyInt(parsed.v))
                named(token) ==
                    IF token = <<>> THEN Return(PyNone)
                    ELSE IF token \in DOMAIN PASS_LIMITS THEN Return(PASS_LIMITS[token])
                    ELSE number(ParseInt(token))
            IN  named(value.s)
      [] OTHER -> Raise("TypeError")

\* A normalisation that takes the integer 0 for "no limit given".
NormalisePassLimitZeroAsUnset(value) ==
    CASE value.t = "None" -> Return(PyNone)
      [] value.t = "bool" -> Raise("TypeError")
      [] value.t = "int" ->
            (IF value.i < 0 THEN Raise("ValueError")
             ELSE IF value.i = 0 THEN Return(PyNone) ELSE Return(PyInt(value.i)))
      [] value.t = "str" ->
            LET number(parsed) ==
                    IF ~parsed.ok THEN Raise("ValueError")
                    ELSE IF parsed.v < 0 THEN Raise("ValueError")
                    ELSE Return(PyInt(parsed.v))
                named(token) ==
                    IF token = <<>> THEN Return(PyNone)
                    ELSE IF token \in DOMAIN PASS_LIMITS THEN Return(PASS_LIMITS[token])
                    ELSE number(ParseInt(token))
            IN  named(Lower(Strip(value.s)))
      [] OTHER -> Raise("TypeError")

\* _normalise_pass_limit(value): Return(None), Return(int) or a raised error.
NormalisePassLimit(value) ==
    CASE value.t = "None" -> Return(PyNone)
      [] value.t = "bool" -> Raise("TypeError")
      [] value.t = "int" ->
            (IF value.i < 0 THEN Raise("ValueError") ELSE Return(PyInt(value.i)))
      [] value.t = "str" ->
            LET number(parsed) ==
                    IF ~parsed.ok THEN Raise("ValueError")
                    ELSE IF parsed.v < 0 THEN Raise("ValueError")
                    ELSE Return(PyInt(parsed.v))
                named(token) ==
                    IF token = <<>> THEN Return(PyNone)
                    ELSE IF token \in DOMAIN PASS_LIMITS THEN Return(PASS_LIMITS[token])
                    ELSE number(ParseInt(token))
            IN  named(Lower(Strip(value.s)))
      [] OTHER -> Raise("TypeError")

\* RuleProfile.pass_limit
PassLimit(profile) == NormalisePassLimit(profile.passes)

\* A reading of the pass count that knows passes_made only.
FirstPassFieldOnly(state) == GetValue(state, "passes_made", PyNone)

\* The first of passes_made, stock_passes, pass_count that is not None.
FirstPassField(state) ==
    LET a == GetValue(state, "passes_made", PyNone)
        b == GetValue(state, "stock_passes", PyNone)
        c == GetValue(state, "pass_count", PyNone)
    IN  IF a # PyNone THEN a ELSE IF b # PyNone THEN b ELSE c

\* RuleProfile.passes_remaining(state)
PassesRemaining(profile, state) ==
    LET left(remaining) == Return(PyInt(IF remaining > 0 THEN remaining ELSE 0))
        remaining(limit) ==
            IF limit.kind = "raise" THEN limit
            ELSE IF limit.value = PyNone THEN Return(PyNone)
            ELSE left(limit.value.i - CoerceNonNegativeInt(FirstPassField(state), 0))
    IN  remaining(PassLimit(profile))

\* Python's `value < n` for an integer n: a bool, or TypeError for None/str.
PyLessThanInt(value, n) ==
    CASE IsNumber(value) -> Return(PyBool(Twice(value) < 2 * n))
      [] value.t \in {"nan", "inf"} -> Return(PyBool(FALSE))
      [] value.t = "-inf" -> Return(PyBool(TRUE))
      [] OTHER -> Raise("TypeError")

\* A stock_pass branch that still allows a pass once the limit is reached.
StockPassLegalInclusive(profile, state) ==
    LET within(limit) ==
            IF limit.kind = "raise" THEN limit
            ELSE IF limit.value = PyNone THEN Return(PyBool(TRUE))
            ELSE PyLessThanInt(GetValue(state, "passes_made", PyInt(0)), limit.value.i + 1)
    IN  within(PassLimit(profile))

\* The stock_pass branch of is_move_legal.
StockPassLegal(profile, state) ==
    LET within(limit) ==
            IF limit.kind = "raise" THEN limit
            ELSE IF limit.value = PyNone THEN Return(PyBool(TRUE))
            ELSE PyLessThanInt(GetValue(state, "passes_made", PyInt(0)), limit.value.i)
    IN  within(PassLimit(profile))

\* A supermove must be strictly weaker than what the profile allows.
SupermoveLegalStrictlyBelow(profile, move) ==
    LET declared == PyOr(PyOr(GetValue(move, "mode", PyNone),
                              GetValue(move, "strength", PyNone)), PyStr(s_standard))
    IN  IF declared.t # "str" \/ profile.supermove.t # "str" THEN Raise("AttributeError")
        ELSE Return(PyBool(StrengthGet(Lower(declared.s), 1)
                            < StrengthGet(Lower(profile.supermove.s), 0)))

\* The supermove branch of is_move_legal.
SupermoveLegal(profile, move) ==
    LET declared == PyOr(PyOr(GetValue(move, "mode", PyNone),
                              GetValue(move, "strength", PyNone)), PyStr(s_standard))
    IN  IF declared.t # "str" \/ profile.supermove.t # "str" THEN Raise("AttributeError")
        ELSE Return(PyBool(StrengthGet(Lower(declared.s), 1)
                            <= StrengthGet(Lower(profile.supermove.s), 0)))

\* The undo branch of is_move_legal: `remaining > 0`, with
\* `max(0, 1 - used)` for remaining when the state carries none.
UndoLegal(profile, state) ==
    LET positive(value) ==
            CASE IsNumber(value) -> Return(PyBool(Twice(value) > 0))
              [] value.t \in {"nan", "-inf"} -> Return(PyBool(FALSE))
              [] value.t = "inf" -> Return(PyBool(TRUE))
              [] OTHER -> Raise("TypeError")
        oneFreeUndoLeft(used) ==
            CASE IsNumber(used) -> Return(PyBool(2 - Twice(used) > 0))
              [] used.t \in {"nan", "inf"} -> Return(PyBool(FALSE))
              [] used.t = "-inf" -> Return(PyBool(TRUE))
              [] OTHER -> Raise("TypeError")
    IN  IF profile.undo_unlimited THEN Return(PyBool(TRUE))
        ELSE LET remaining == GetValue(state, "undo_remaining", PyNone)
             IN  IF remaining = PyNone
                 THEN oneFreeUndoLeft(GetValue(state, "undo_used", PyInt(0)))
                 ELSE positive(remaining)

\* A draw-size check that is applied to draw moves only.
DrawCountVetoesDrawOnly(profile, move) ==
    LET requested_draw == GetValue(move, "draw_count", PyNone)
        action == PyOr(GetValue(move, "type", PyNone), GetValue(move, "action", PyNone))
    IN  /\ requested_draw # PyNone /\ ~PyEq(requested_draw, profile.draw)
        /\ action.t = "str" /\ Lower(action.s) = s_type_draw

\* The draw-size check that precedes the action-specific rules.
DrawCountVetoes(profile, move) ==
    LET requested_draw == GetValue(move, "draw_count", PyNone)
    IN  requested_draw # PyNone /\ ~PyEq(requested_draw, profile.draw)

\* A closed policy: actions the engine does not model are refused.
DefaultIllegal == Return(PyBool(FALSE))

\* The final `return True` of is_move_legal: unmodelled actions are allowed.
DefaultLegal == Return(PyBool(TRUE))

\* RuleProfile.is_move_legal(state, move)
IsMoveLegal(profile, state, move) ==
    LET rule(a) ==
            IF DrawCountVetoes(profile, move) THEN Return(PyBool(FALSE))
            ELSE IF a = s_type_draw THEN Return(PyBool(TRUE))
            ELSE IF a = s_stock_pass THEN StockPassLegal(profile, state)
            ELSE IF a = s_supermove THEN SupermoveLegal(profile, move)
            ELSE IF a = s_foundation_to_tableau
                 THEN Return(PyBool(profile.foundation_takeback))
            ELSE IF a = s_peek THEN Return(PyBool(profile.peek_xray))
            ELSE IF a = s_autoplay
                 THEN (IF ~profile.autoplay_safe_only THEN Return(PyBool(TRUE))
                       ELSE Return(PyBool(Truthy(GetValue(move, "is_safe", PyBool(FALSE))))))
            ELSE IF a = s_undo THEN UndoLegal(profile, state)
            ELSE DefaultLegal
        action == PyOr(GetValue(move, "type", PyNone), GetValue(move, "action", PyNone))
    IN  IF ~Truthy(action) THEN Raise("ValueError")
        ELSE IF action.t # "str" THEN Raise("AttributeError")
        ELSE rule(Lower(action.s))

----------------------------------------------------------------------------
(* Canonical presets and the inputs the rules engine is exercised on       *)

MakeRuleProfile(draw, passes, supermove, takeback, xray, safe_only, undo) ==
    [draw |-> PyInt(draw), passes |-> passes, supermove |-> PyStr(supermove),
     foundation_takeback |-> takeback, peek_xray |-> xray,
     autoplay_safe_only |-> safe_only, undo_unlimited |-> undo]

MAX_RELAX == MakeRuleProfile(1, PyStr(s_unlimited), s_relaxed, TRUE, TRUE, FALSE, TRUE)
FRIENDLY_APP == MakeRuleProfile(1, PyStr(s_unlimited), s_standard, TRUE, FALSE, FALSE, TRUE)
STANDARD == MakeRuleProfile(3, PyStr(s_three), s_standard, FALSE, FALSE, TRUE, FALSE)
XRAY == MakeRuleProfile(3, PyStr(s_three), s_standard, FALSE, TRUE, TRUE, FALSE)

Presets == {MAX_RELAX, FRIENDLY_APP, STANDARD, XRAY}

\* Values given as a profile's `passes`.
PassesInputs ==
    {PyNone, PyStr(s_unlimited), PyStr(s_three), PyStr(s_empty), PyStr(s_none),
     PyStr(s_one), PyStr(s_5), PyStr(s_bogus),
     PyStr(s_infinite), PyStr(s_max_relax), PyStr(s_triple), PyStr(s_single),
     PyStr(<<"U", "N", "L", "I", "M", "I", "T", "E", "D">>),
     PyStr(<<" ", "T", "h", "r", "e", "e", " ">>),
     PyStr(<<" ", "\r", "U+00A0">>), PyStr(<<" ", "2", " ">>), PyStr(<<"+", "2">>),
     PyStr(<<"\f", "2", "U+001F">>), PyStr(<<"T", "H", "R", "É", "E">>),
     PyStr(<<"U+0663">>), PyNegativeZero,
     PyStr(<<"-", "1">>), PyStr(<<"1", "_", "0">>), PyStr(<<"3", ".", "5">>),
     PyBool(TRUE), PyFloat(8), PyFloat(7), PyNaN, PyInf}
    \cup {PyInt(i) : i \in -1..MaxPassLimit}

\* The profile the tests build around a `passes` value (_make_profile).
TestProfile(passes) == MakeRuleProfile(1, passes, s_standard, FALSE, FALSE, TRUE, FALSE)

\* The presets, the profiles of the tests, and one that allows no supermove.
Profiles ==
    Presets \cup {TestProfile(v) : v \in PassesInputs}
    \cup {MakeRuleProfile(1, PyStr(s_unlimited), s_none, FALSE, FALSE, TRUE, FALSE)}


EmptyState ==
    [k \in {"passes_made", "stock_passes", "pass_count", "undo_remaining", "undo_used"} |->
        Absent]
EmptyMove ==
    [k \in {"type", "action", "draw_count", "mode", "strength", "is_safe"} |-> Absent]

States ==
    {[EmptyState EXCEPT !["passes_made"] = a, !["stock_passes"] = b, !["pass_count"] = c] :
        a \in ({Absent, PyNone, PyBool(TRUE), PyStr(<<"2">>), PyStr(s_bogus), PyFloat(5), PyNaN}
             \cup {PyInt(i) : i \in -1..(MaxPassLimit + 2)}),
        b \in {Absent, PyInt(MaxPassLimit)}, c \in {Absent, PyInt(1)}}
    \cup
    {[EmptyState EXCEPT !["undo_remaining"] = r, !["undo_used"] = u] :
        r \in {Absent, PyNone, PyInt(0), PyInt(2)},
        u \in {Absent, PyInt(0), PyInt(1), PyBool(TRUE), PyStr(<<"1">>)}}

StrengthInputs ==
    {Absent, PyStr(s_empty), PyStr(s_none), PyStr(<<"R", "E", "L", "A", "X", "E", "D">>),
     PyStr(s_bogus)}

Moves ==
    {[EmptyMove EXCEPT !["type"] = ty, !["draw_count"] = dc] :
        ty \in {Absent, PyStr(s_empty), PyInt(5)}
               \cup {PyStr(s) : s \in {s_type_draw, s_stock_pass, s_supermove,
                                       s_foundation_to_tableau, s_peek, s_autoplay,
                                       s_undo, s_custom, <<"P", "E", "E", "U+212A">>,
                                       <<"D", "R", "A", "W">>,
                                       <<"S", "t", "o", "c", "k", "_", "P", "a", "s", "s">>,
                                       <<"S", "u", "p", "e", "r", "M", "o", "v", "e">>}},
        dc \in {Absent, PyNone, PyStr(<<"1">>), PyFloat(2), PyBool(TRUE)}
               \cup {PyInt(i) : i \in 1..MaxDraw}}
    \cup
    {[EmptyMove EXCEPT !["type"] = ty, !["action"] = ac, !["draw_count"] = dc] :
        ty \in {Absent, PyStr(s_empty), PyStr(s_custom)},
        ac \in {PyStr(<<"P", "e", "e", "k">>), PyStr(s_stock_pass), PyStr(s_custom)},
        dc \in {Absent, PyInt(MaxDraw)}}
    \cup
    {[EmptyMove EXCEPT !["type"] = PyStr(s_supermove), !["mode"] = m, !["strength"] = st,
                       !["draw_count"] = dc] :
        m \in StrengthInputs, st \in StrengthInputs \cup {PyStr(s_relaxed)},
        dc \in {Absent, PyInt(1)}}
    \cup
    {[EmptyMove EXCEPT !["type"] = PyStr(s_autoplay), !["is_safe"] = safe] :
        safe \in {PyBool(TRUE), PyBool(FALSE), PyNone, PyInt(1), PyStr(s_empty)}}

----------------------------------------------------------------------------
(* src/rules.py: serialisation of a profile                                *)

\* The names of the dataclass fields.
ProfileFields ==
    {"draw", "passes", "supermove", "foundation_takeback", "peek_xray",
     "autoplay_safe_only", "undo_unlimited"}

\* to_dict: dict(asdict(self)), a mapping from field name to Python value.
ToDict(profile) ==
    [draw |-> profile.draw, passes |-> profile.passes, supermove |-> profile.supermove,
     foundation_takeback |-> PyBool(profile.foundation_takeback),
     peek_xray |-> PyBool(profile.peek_xray),
     autoplay_safe_only |-> PyBool(profile.autoplay_safe_only),
     undo_unlimited |-> PyBool(profile.undo_unlimited)]

\* cls(**data) without the filter: any key that is not a field is refused.
FromDictUnfiltered(data) ==
    IF DOMAIN data = ProfileFields
    THEN Return([draw |-> data.draw, passes |-> data.passes, supermove |-> data.supermove,
                 foundation_takeback |-> data.foundation_takeback.b,
                 peek_xray |-> data.peek_xray.b,
                 autoplay_safe_only |-> data.autoplay_safe_only.b,
                 undo_unlimited |-> data.undo_unlimited.b])
    ELSE Raise("TypeError")

\* from_dict: keep the keys that name a field, then cls(**filtered); the
\* constructor raises TypeError when a field is missing.  The four flags are
\* given as booleans.
FromDict(data) ==
    LET filtered == [k \in DOMAIN data \cap ProfileFields |-> data[k]]
    IN  IF DOMAIN filtered = ProfileFields
        THEN Return([draw |-> filtered.draw, passes |-> filtered.passes,
                     supermove |-> filtered.supermove,
                     foundation_takeback |-> filtered.foundation_takeback.b,
                     peek_xray |-> filtered.peek_xray.b,
                     autoplay_safe_only |-> filtered.autoplay_safe_only.b,
                     undo_unlimited |-> filtered.undo_unlimited.b])
        ELSE Raise("TypeError")

\* The decimal digits of a natural number.
RECURSIVE IntDigits(_)
IntDigits(n) ==
    IF n < 10 THEN <<Chr(48 + n)>> ELSE IntDigits(n \div 10) \o <<Chr(48 + (n % 10))>>

\* What json.dumps (ensure_ascii) writes for the characters of a string:
\* the characters from the space to the tilde as themselves, but the quote
\* and the backslash behind a backslash; the control characters that have
\* one by their letter; any other as \uXXXX, the hexadecimal digits in
\* lower case, a character beyond U+FFFF as its two surrogates.
RECURSIVE JsonEscaped(_)
JsonEscaped(s) ==
    LET hex(digits) == <<"\\", "u">> \o [i \in 1..4 |-> SubSeq(digits, i, i)]
        u(code) == hex(HexText(code, 4, "0123456789abcdef"))
        escape(n) ==
            CASE n = 34 -> <<"\\", "\"">>
              [] n = 92 -> <<"\\", "\\">>
              [] n = 8 -> <<"\\", "b">>
              [] n = 9 -> <<"\\", "t">>
              [] n = 10 -> <<"\\", "n">>
              [] n = 12 -> <<"\\", "f">>
              [] n = 13 -> <<"\\", "r">>
              [] n \in (32..126) \ {34, 92} -> <<Chr(n)>>
              [] n \in ((0..31) \ {8, 9, 10, 12, 13}) \cup (127..65535) -> u(n)
              [] n > 65535 ->
                    u(55296 + ((n - 65536) \div 1024)) \o u(56320 + ((n - 65536) % 1024))
    IN  IF s = <<>> THEN <<>> ELSE escape(Ord(Head(s))) \o JsonEscaped(Tail(s))

\* The string a text between quotes stands for, added to acc, or the
\* JSONDecodeError of a text that is no string: a quote or a control
\* character in it, a backslash that starts neither an escape of two
\* characters nor \u and four hexadecimal digits.  Two escapes that are the
\* surrogates of a character beyond U+FFFF stand for that character.
RECURSIVE JsonUnescaped(_, _)
JsonUnescaped(text, acc) ==
    LET hex(from) ==
            /\ Len(text) >= from + 3
            /\ \A i \in from..(from + 3) :
                    \E d \in 0..15 :
                        text[i] \in {SubSeq("0123456789abcdef", d + 1, d + 1),
                                     SubSeq("0123456789ABCDEF", d + 1, d + 1)}
        code(from) == HexNumber(SubSeq(text, from, from + 3), 0)
        paired ==
            /\ code(3) \in 55296..56319
            /\ Len(text) >= 8 /\ text[7] = "\\" /\ text[8] = "u"
            /\ hex(9)
            /\ code(9) \in 56320..57343
    IN  IF text = <<>> THEN Return(acc)
        ELSE IF Head(text) = "\"" THEN Raise("JSONDecodeError")
        ELSE IF Head(text) # "\\"
        THEN IF Ord(Head(text)) < 32 THEN Raise("JSONDecodeError")
             ELSE JsonUnescaped(Tail(text), Append(acc, Head(text)))
        ELSE IF Len(text) < 2 THEN Raise("JSONDecodeError")
        ELSE IF text[2] = "u"
        THEN IF ~hex(3) THEN Raise("JSONDecodeError")
             ELSE IF paired
             THEN JsonUnescaped(SubSeq(text, 13, Len(text)),
                                Append(acc, Chr(65536 + (code(3) - 55296) * 1024
                                                + (code(9) - 56320))))
             ELSE JsonUnescaped(SubSeq(text, 7, Len(text)), Append(acc, Chr(code(3))))
        ELSE IF text[2] \in {"\"", "\\", "/", "b", "f", "n", "r", "t"}
        THEN JsonUnescaped(SubSeq(text, 3, Len(text)),
                           Append(acc, CASE text[2] = "b" -> Chr(8)
                                         [] text[2] = "f" -> "\f"
                                         [] text[2] = "n" -> "\n"
                                         [] text[2] = "r" -> "\r"
                                         [] text[2] = "t" -> "\t"
                                         [] OTHER -> text[2]))
        ELSE Raise("JSONDecodeError")

\* 10^n
RECURSIVE TenTo(_)
TenTo(n) == IF n = 0 THEN 1 ELSE 10 * TenTo(n - 1)

\* json.dumps of one value: the text of a JSON scalar (floats are whole or
\* half numbers, written as repr writes them below 10^16).
JsonDumps(v) ==
    CASE v.t = "None" -> <<"n", "u", "l", "l">>
      [] v.t = "bool" -> (IF v.b THEN <<"t", "r", "u", "e">> ELSE <<"f", "a", "l", "s", "e">>)
      [] v.t = "int" -> (IF v.i < 0 THEN <<"-">> \o IntDigits(0 - v.i) ELSE IntDigits(v.i))
      [] v.t = "str" -> <<"\"">> \o JsonEscaped(v.s) \o <<"\"">>
      [] v.t = "float" ->
            (IF v.twice < 0 \/ v = PyNegativeZero THEN <<"-">> ELSE <<>>)
            \o IntDigits((IF v.twice < 0 THEN 0 - v.twice ELSE v.twice) \div 2)
            \o <<".", IF v.twice % 2 = 0 THEN "0" ELSE "5">>
      [] v.t = "nan" -> <<"N", "a", "N">>
      [] v.t = "inf" -> <<"I", "n", "f", "i", "n", "i", "t", "y">>
      [] v.t = "-inf" -> <<"-", "I", "n", "f", "i", "n", "i", "t", "y">>

\* json.loads of a text that holds one JSON scalar, or that is malformed:
\* the value, or JSONDecodeError.  Blanks around the scalar are skipped; a
\* number is an optional minus, digits of ASCII without a needless leading
\* zero, and optionally a point with digits and an exponent with digits.  A
\* number with a fraction or an exponent is a float: its digits m and its
\* power of ten e give m * 10^e, kept as twice its value (a whole or a half
\* number).  Arrays and objects are not scalars and have no value here.
JsonLoads(text) ==
    LET signed(negative, n) == IF negative THEN 0 - n ELSE n
        digits(s) ==
            s # <<>> /\ \A i \in DOMAIN s : s[i] \in {"0", "1", "2", "3", "4", "5", "6", "7", "8", "9"}
        \* the number of digits m and power of ten e
        value(negative, integral, m, e) ==
            CASE integral -> Return(PyInt(signed(negative, m)))
              [] ~integral /\ m = 0 -> Return(IF negative THEN PyNegativeZero ELSE PyFloat(0))
              [] ~integral /\ m # 0 /\ e >= 0 -> Return(PyFloat(signed(negative, 2 * m * TenTo(e))))
              [] ~integral /\ m # 0 /\ e < 0 /\ (2 * m) % TenTo(0 - e) = 0 ->
                    Return(PyFloat(signed(negative, (2 * m) \div TenTo(0 - e))))
        \* the number written with these parts, when they make one
        parts(negative, whole, pointed, fraction, raised, exponent) ==
            LET power == IF exponent # <<>> /\ Head(exponent) \in {"+", "-"} THEN Tail(exponent)
                         ELSE exponent
            IN  IF /\ digits(whole) /\ (Len(whole) = 1 \/ whole[1] # "0")
                   /\ ~pointed \/ digits(fraction)
                   /\ ~raised \/ digits(power)
                THEN value(negative, ~pointed /\ ~raised, DigitsValue(whole \o fraction, 0),
                           (IF ~raised THEN 0
                            ELSE (IF Head(exponent) = "-" THEN -1 ELSE 1) * DigitsValue(power, 0))
                           - Len(fraction))
                ELSE Raise("JSONDecodeError")
        pointed(negative, mantissa, raised, exponent) ==
            LET dots == {i \in DOMAIN mantissa : mantissa[i] = "."}
                dot == IF dots = {} THEN Len(mantissa) + 1 ELSE CHOOSE i \in dots : TRUE
            IN  parts(negative, SubSeq(mantissa, 1, dot - 1), dots # {},
                      SubSeq(mantissa, dot + 1, Len(mantissa)), raised, exponent)
        number(negative, unsigned) ==
            LET exps == {i \in DOMAIN unsigned : unsigned[i] \in {"e", "E"}}
                exp == IF exps = {} THEN Len(unsigned) + 1 ELSE CHOOSE i \in exps : TRUE
            IN  pointed(negative, SubSeq(unsigned, 1, exp - 1), exps # {},
                        SubSeq(unsigned, exp + 1, Len(unsigned)))
        string(unescaped) ==
            IF unescaped.kind = "return" THEN Return(PyStr(unescaped.value)) ELSE unescaped
        scalar(t) ==
            CASE t = <<"n", "u", "l", "l">> -> Return(PyNone)
              [] t = <<"t", "r", "u", "e">> -> Return(PyBool(TRUE))
              [] t = <<"f", "a", "l", "s", "e">> -> Return(PyBool(FALSE))
              [] t = <<"N", "a", "N">> -> Return(PyNaN)
              [] t = <<"I", "n", "f", "i", "n", "i", "t", "y">> -> Return(PyInf)
              [] t = <<"-", "I", "n", "f", "i", "n", "i", "t", "y">> -> Return([t |-> "-inf"])
              [] Len(t) >= 2 /\ t[1] = "\"" /\ t[Len(t)] = "\"" ->
                    string(JsonUnescaped(SubSeq(t, 2, Len(t) - 1), <<>>))
              [] /\ t \notin {<<"n", "u", "l", "l">>, <<"t", "r", "u", "e">>,
                              <<"f", "a", "l", "s", "e">>, <<"N", "a", "N">>,
                              <<"I", "n", "f", "i", "n", "i", "t", "y">>,
                              <<"-", "I", "n", "f", "i", "n", "i", "t", "y">>}
                 /\ ~(Len(t) >= 2 /\ t[1] = "\"" /\ t[Len(t)] = "\"")
                 /\ ~(t # <<>> /\ t[1] \in {"[", "{"}) ->
                    IF t # <<>> /\ Head(t) = "-" THEN number(TRUE, Tail(t))
                    ELSE number(FALSE, t)
        strip(t) == RStrip(LStrip(t, {9, 10, 13, 32}), {9, 10, 13, 32})
    IN  scalar(strip(text))

\* to_json: json.dumps(self.to_dict()), one text per member of the object.
ToJson(profile) == [k \in DOMAIN ToDict(profile) |-> JsonDumps(ToDict(profile)[k])]

\* from_json: cls.from_dict(json.loads(payload)); json.loads raises when the
\* text of a member is malformed.
FromJson(payload) ==
    LET built(loaded) ==
            IF \E k \in DOMAIN payload : loaded[k].kind = "raise"
            THEN Raise("JSONDecodeError")
            ELSE FromDict([k \in DOMAIN payload |-> loaded[k].value])
    IN  built([k \in DOMAIN payload |-> JsonLoads(payload[k])])

\* Keys that are not fields, as a mapping handed to from_dict may carry them.
ExtraKeyInputs ==
    {[k \in {} |-> PyNone], [extra |-> PyInt(1)],
     [version |-> PyStr(s_5), draw_count |-> PyInt(3), Draw |-> PyNone]}

----------------------------------------------------------------------------
(* src/scripts/solver.py: cards and the deck                               *)

SUITS == <<"spades", "hearts", "clubs", "diamonds">>
SUIT_COLORS ==
    [suit \in {"spades", "hearts", "clubs", "diamonds"} |->
        IF suit \in {"spades", "clubs"} THEN "black" ELSE "red"]
RANKS == [i \in 1..13 |-> i]

Card(rank, suit, face_up) == [rank |-> rank, suit |-> suit, face_up |-> face_up]
Color(card) == SUIT_COLORS[card.suit]
FaceUp(card) == [card EXCEPT !.face_up = TRUE]
FaceDown(card) == [card EXCEPT !.face_up = FALSE]

\* [Card(rank, suit) for suit in SUITS for rank in RANKS]
OrderedDeck ==
    [i \in 1..(Len(SUITS) * Len(RANKS)) |->
        Card(RANKS[((i - 1) % Len(RANKS)) + 1], SUITS[((i - 1) \div Len(RANKS)) + 1], FALSE)]

\* random.Random(seed).shuffle on a 52-element list, as CPython computes it:
\* <<seed, k>> (seed as its two base-65536 digits) gives the positions (from 0) of the original elements after the
\* (k+1)-th shuffle made with one generator seeded with `seed`.
ShuffleOrder ==
    <<<<0, 0>>, 0>> :> <<28, 12, 45, 41, 38, 7, 5, 36, 1, 49, 33, 0, 4, 35, 20, 14, 51, 29, 34, 44, 39, 11, 42, 17, 15, 10, 21, 27, 50, 23, 3, 43, 9, 47, 6, 40, 18, 8, 46, 13, 37, 22, 30, 19, 25, 31, 32, 16, 2, 26, 48, 24>> @@
    <<<<0, 0>>, 1>> :> <<13, 23, 27, 24, 8, 39, 11, 1, 16, 48, 44, 0, 51, 3, 38, 22, 37, 10, 47, 30, 2, 49, 43, 33, 41, 42, 25, 35, 17, 29, 26, 21, 7, 18, 19, 6, 31, 32, 50, 40, 5, 28, 34, 9, 15, 14, 36, 12, 4, 45, 20, 46>> @@
    <<<<0, 0>>, 2>> :> <<16, 38, 4, 30, 29, 40, 9, 14, 35, 24, 21, 19, 2, 12, 49, 1, 42, 39, 50, 11, 48, 3, 8, 23, 0, 32, 6, 27, 10, 51, 18, 36, 7, 20, 5, 22, 31, 28, 47, 41, 26, 37, 13, 15, 46, 17, 33, 45, 25, 43, 34, 44>> @@
    <<<<0, 0>>, 3>> :> <<9, 24, 17, 25, 51, 44, 43, 33, 48, 18, 49, 10, 26, 0, 21, 20, 29, 15, 45, 8, 37, 46, 31, 41, 32, 28, 39, 36, 40, 5, 42, 22, 19, 35, 14, 4, 16, 6, 27, 34, 47, 3, 13, 30, 50, 11, 12, 1, 38, 2, 7, 23>> @@
    <<<<7, 0>>, 0>> :> <<17, 39, 31, 10, 40, 11, 0, 19, 14, 50, 16, 8, 38, 44, 33, 45, 24, 29, 22, 12, 21, 43, 30, 28, 49, 51, 7, 48, 18, 35, 1, 36, 42, 15, 46, 26, 27, 5, 2, 13, 32, 47, 37, 23, 6, 34, 4, 3, 41, 25, 9, 20>> @@
    <<<<7, 0>>, 1>> :> <<33, 25, 41, 40, 12, 30, 21, 17, 8, 1, 22, 0, 6, 7, 24, 49, 26, 44, 50, 28, 47, 2, 51, 38, 14, 48, 10, 32, 16, 9, 18, 5, 42, 11, 15, 19, 23, 46, 37, 29, 20, 27, 34, 43, 31, 13, 39, 3, 36, 4, 45, 35>> @@
    <<<<7, 0>>, 2>> :> <<40, 20, 27, 11, 49, 0, 48, 47, 33, 43, 39, 21, 16, 35, 13, 26, 8, 34, 14, 50, 2, 15, 25, 12, 32, 23, 45, 9, 38, 6, 46, 31, 7, 10, 37, 29, 1, 22, 24, 18, 28, 36, 41, 19, 3, 51, 42, 44, 30, 17, 5, 4>> @@
    <<<<7, 0>>, 3>> :> <<13, 46, 43, 47, 4, 7, 22, 48, 28, 21, 27, 17, 49, 41, 44, 45, 19, 50, 10, 42, 5, 14, 24, 2, 6, 1, 30, 38, 15, 35, 12, 40, 33, 25, 29, 3, 32, 8, 20, 36, 39, 23, 34, 26, 9, 51, 18, 16, 11, 37, 31, 0>> @@
    <<<<42, 0>>, 0>> :> <<9, 23, 25, 3, 21, 38, 16, 39, 19, 11, 46, 24, 33, 29, 31, 43, 4, 28, 10, 26, 36, 0, 44, 18, 42, 50, 35, 48, 30, 20, 22, 12, 51, 32, 45, 13, 41, 49, 2, 27, 37, 5, 34, 6, 8, 14, 15, 17, 47, 1, 7, 40>> @@
    <<<<42, 0>>, 1>> :> <<13, 43, 15, 9, 25, 46, 1, 0, 16, 3, 26, 33, 31, 42, 28, 37, 49, 7, 34, 38, 32, 19, 41, 20, 27, 22, 8, 21, 44, 30, 11, 10, 45, 29, 17, 51, 6, 47, 50, 48, 14, 2, 4, 12, 36, 23, 39, 40, 18, 35, 5, 24>> @@
    <<<<42, 0>>, 2>> :> <<26, 7, 43, 11, 18, 21, 6, 22, 42, 33, 10, 0, 28, 32, 39, 49, 17, 12, 50, 19, 47, 5, 48, 30, 3, 1, 24, 2, 38, 37, 4, 14, 23, 44, 27, 40, 34, 35, 15, 8, 16, 9, 29, 46, 25, 31, 41, 51, 20, 45, 36, 13>> @@
    <<<<42, 0>>, 3>> :> <<50, 28, 5, 13, 37, 24, 22, 42, 27, 17, 14, 8, 21, 34, 47, 4, 31, 30, 41, 2, 18, 35, 1, 7, 36, 25, 26, 44, 3, 39, 15, 20, 49, 33, 51, 23, 9, 12, 38, 43, 19, 40, 6, 45, 11, 32, 16, 48, 46, 0, 29, 10>> @@
    <<<<12345, 0>>, 0>> :> <<8, 25, 50, 40, 15, 3, 28, 1, 39, 34, 9, 24, 30, 48, 45, 13, 29, 20, 21, 14, 49, 33, 42, 31, 2, 41, 6, 4, 32, 38, 18, 51, 5, 22, 44, 37, 11, 35, 16, 43, 7, 47, 10, 27, 36, 17, 12, 23, 19, 0, 46, 26>> @@
    <<<<12345, 0>>, 1>> :> <<6, 18, 9, 42, 32, 15, 30, 29, 20, 41, 23, 3, 39, 28, 49, 22, 25, 24, 34, 48, 47, 1, 43, 26, 12, 5, 36, 17, 40, 44, 4, 0, 19, 10, 46, 8, 50, 27, 37, 16, 11, 35, 13, 31, 7, 51, 2, 21, 45, 38, 33, 14>> @@
    <<<<12345, 0>>, 2>> :> <<1, 29, 25, 49, 36, 4, 22, 24, 48, 11, 6, 20, 45, 28, 30, 17, 46, 27, 38, 39, 2, 50, 16, 8, 3, 19, 26, 33, 15, 40, 32, 34, 0, 43, 47, 18, 37, 41, 13, 14, 21, 10, 31, 5, 9, 51, 7, 44, 42, 23, 12, 35>> @@
    <<<<12345, 0>>, 3>> :> <<6, 10, 5, 19, 26, 50, 23, 0, 15, 13, 28, 35, 9, 7, 22, 44, 49, 51, 37, 1, 24, 30, 4, 31, 20, 46, 38, 17, 42, 25, 11, 2, 27, 16, 3, 32, 34, 43, 18, 45, 21, 14, 33, 8, 48, 36, 39, 40, 12, 47, 29, 41>>

\* The generator random.Random(seed): its seed and the shuffles it has made.
NewRandom(seed) == [seed |-> seed, shuffles |-> 0]

\* rng.shuffle(deck): the shuffled deck (the generator advances by one shuffle).
Shuffle(deck, rng) ==
    LET order == ShuffleOrder[<<rng.seed, rng.shuffles>>]
    IN  [i \in 1..Len(deck) |-> deck[order[i] + 1]]

\* An integer seed is kept as its base-65536 digits, least significant first
\* (12345 is <<12345>>, 2^32 + 7 is <<7, 0, 1>>).
Limb(seed, i) == IF i <= Len(seed) THEN seed[i] ELSE 0

\* shuffle_seed & 0xFFFFFFFF: the two low digits.
MaskSeed(shuffle_seed) == <<Limb(shuffle_seed, 1), Limb(shuffle_seed, 2)>>

----------------------------------------------------------------------------
(* src/scripts/solver.py: KlondikeSolver, as operators on the instance     *)

\* KlondikeSolver._build_deck: the deck and the generator after building it.
BuildDeck(self) ==
    IF self.initial_deck.given
    THEN [deck |-> self.initial_deck.cards, rng |-> self.base_rng]
    ELSE [deck |-> Shuffle(OrderedDeck, self.base_rng),
          rng |-> [self.base_rng EXCEPT !.shuffles = @ + 1]]

\* Number of cards dealt to the columns before column c (counted from 0).
DealtBefore(c) == (c * (c + 1)) \div 2

\* A deal that leaves the cards of the stock as the deck handed them over.
SetupKeepingStockFaces(self) ==
    LET built == BuildDeck(self)
        deck == built.deck
        n == Len(deck)
    IN  [self EXCEPT
            !.tableau = [c \in 1..7 |->
                            [r \in 1..c |->
                                [deck[n - (DealtBefore(c - 1) + (r - 1))] EXCEPT
                                    !.face_up = (r = c)]]],
            !.stock = [i \in 1..(n - DealtBefore(7)) |-> deck[i]],
            !.waste = <<>>,
            !.foundations = [suit \in DOMAIN SUIT_COLORS |-> <<>>],
            !.moves = 0,
            !.passes_used = 0,
            !.base_rng = built.rng]

\* KlondikeSolver.setup
Setup(self) ==
    LET built == BuildDeck(self)
        deck == built.deck
        n == Len(deck)
    IN  [self EXCEPT
            !.tableau = [c \in 1..7 |->
                            [r \in 1..c |->
                                [deck[n - (DealtBefore(c - 1) + (r - 1))] EXCEPT
                                    !.face_up = (r = c)]]],
            !.stock = [i \in 1..(n - DealtBefore(7)) |-> FaceDown(deck[i])],
            !.waste = <<>>,
            !.foundations = [suit \in DOMAIN SUIT_COLORS |-> <<>>],
            !.moves = 0,
            !.passes_used = 0,
            !.base_rng = built.rng]

\* KlondikeSolver.__init__: the instance, or the ValueError raised for a
\* draw_count below 1 or a negative pass_limit.  draw_count is a number
\* (an int, a bool or a float), compared as it is and then kept as
\* int(draw_count), which truncates a float.
NewSolver(draw_count, pass_limit, shuffle_seed, deck) ==
    IF Twice(draw_count) < 2 THEN Raise("ValueError")
    ELSE IF pass_limit # PyNone /\ pass_limit.i < 0 THEN Raise("ValueError")
    ELSE Return(Setup([draw_count |-> TruncFloat(Twice(draw_count)),
                       pass_limit |-> pass_limit,
                       shuffle_seed |-> MaskSeed(shuffle_seed),
                       base_rng |-> NewRandom(MaskSeed(shuffle_seed)),
                       initial_deck |-> deck,
                       tableau |-> <<>>, stock |-> <<>>, waste |-> <<>>,
                       foundations |-> <<>>, moves |-> 0, passes_used |-> 0]))

Top(pile) == pile[Len(pile)]
Pop(pile) == SubSeq(pile, 1, Len(pile) - 1)

\* KlondikeSolver.can_move_to_foundation
CanMoveToFoundation(self, card) ==
    LET foundation == self.foundations[card.suit]
    IN  IF foundation = <<>> THEN card.rank = 1
        ELSE Top(foundation).rank = card.rank - 1

\* KlondikeSolver.move_to_foundation
MoveToFoundation(self, card) ==
    [self EXCEPT !.foundations[card.suit] = Append(@, card), !.moves = @ + 1]

\* KlondikeSolver.flip_tableau_if_needed
FlipTableauIfNeeded(self, index) ==
    LET column == self.tableau[index]
    IN  IF column # <<>> /\ ~Top(column).face_up
        THEN [self EXCEPT !.tableau[index][Len(column)].face_up = TRUE]
        ELSE self

\* KlondikeSolver.can_stack_on_tableau
CanStackOnTableau(card, column) ==
    IF column = <<>> THEN card.rank = 13
    ELSE IF ~Top(column).face_up THEN FALSE
    ELSE Color(Top(column)) # Color(card) /\ Top(column).rank = card.rank + 1

\* KlondikeSolver.move_stack (start_idx counted from 1; a slice that starts
\* beyond the column is empty)
MoveStack(self, src_index, start_idx, dest_index) ==
    LET column == self.tableau[src_index]
        start == IF start_idx > Len(column) THEN Len(column) + 1 ELSE start_idx
        stack == SubSeq(column, start, Len(column))
        moved == [self EXCEPT
                    !.tableau[src_index] = SubSeq(column, 1, start - 1),
                    !.tableau[dest_index] = @ \o stack,
                    !.moves = @ + 1]
    IN  FlipTableauIfNeeded(moved, src_index)

\* What a bool-returning method leaves behind: the instance and the value.
Outcome(self, ret) == [self |-> self, ret |-> ret]

\* A draw that lifts the cards off the stock as one block, in stock order.
DrawFromStockAsBlock(self) ==
    IF self.stock = <<>> THEN Outcome(self, FALSE)
    ELSE LET draw_count == IF self.draw_count < Len(self.stock) THEN self.draw_count
                           ELSE Len(self.stock)
             drawn == SubSeq(self.stock, Len(self.stock) - draw_count + 1, Len(self.stock))
         IN  Outcome([self EXCEPT
                        !.stock = SubSeq(@, 1, Len(@) - draw_count),
                        !.waste = @ \o [i \in 1..draw_count |-> FaceUp(drawn[i])],
                        !.moves = @ + 1],
                     TRUE)

\* KlondikeSolver.draw_from_stock
DrawFromStock(self) ==
    IF self.stock = <<>> THEN Outcome(self, FALSE)
    ELSE LET draw_count == IF self.draw_count < Len(self.stock) THEN self.draw_count
                           ELSE Len(self.stock)
             \* draw_count pops appended in turn: the last cards, last first
             drawn == [i \in 1..draw_count |-> self.stock[Len(self.stock) - i + 1]]
         IN  Outcome([self EXCEPT
                        !.stock = SubSeq(@, 1, Len(@) - draw_count),
                        !.waste = @ \o [i \in 1..draw_count |-> FaceUp(drawn[i])],
                        !.moves = @ + 1],
                     TRUE)

\* A limit test that lets one more pass through.
PassLimitExceeded(self) ==
    self.pass_limit # PyNone /\ self.passes_used > self.pass_limit.i

\* The pass-limit test of recycle_stock.
PassLimitReached(self) ==
    self.pass_limit # PyNone /\ self.passes_used >= self.pass_limit.i

\* A recycle that lays the waste on the stock as it lies, without turning
\* the pile over.
RecycleStockUnreversed(self) ==
    IF self.waste = <<>> THEN Outcome(self, FALSE)
    ELSE IF PassLimitReached(self) THEN Outcome(self, FALSE)
    ELSE Outcome([self EXCEPT
                    !.waste = <<>>,
                    !.stock = @ \o [i \in 1..Len(self.waste) |-> FaceDown(self.waste[i])],
                    !.passes_used = @ + 1],
                 TRUE)

\* KlondikeSolver.recycle_stock
RecycleStock(self) ==
    IF self.waste = <<>> THEN Outcome(self, FALSE)
    ELSE IF PassLimitReached(self) THEN Outcome(self, FALSE)
    ELSE LET \* reversed(self.waste)
             cards == [i \in 1..Len(self.waste) |-> self.waste[Len(self.waste) - i + 1]]
         IN  Outcome([self EXCEPT
                        !.waste = <<>>,
                        !.stock = @ \o [i \in 1..Len(cards) |-> FaceDown(cards[i])],
                        !.passes_used = @ + 1],
                     TRUE)

\* KlondikeSolver.try_promote_waste_to_foundation
TryPromoteWasteToFoundation(self) ==
    IF self.waste = <<>> THEN Outcome(self, FALSE)
    ELSE IF ~CanMoveToFoundation(self, Top(self.waste)) THEN Outcome(self, FALSE)
    ELSE Outcome(MoveToFoundation([self EXCEPT !.waste = Pop(@)], Top(self.waste)), TRUE)

\* Columns whose top card try_promote_tableau_to_foundation would promote.
PromotableColumns(self) ==
    {index \in 1..7 :
        /\ self.tableau[index] # <<>>
        /\ Top(self.tableau[index]).face_up
        /\ CanMoveToFoundation(self, Top(self.tableau[index]))}

SetMin(S) == CHOOSE x \in S : \A y \in S : x <= y

\* KlondikeSolver.try_promote_tableau_to_foundation
TryPromoteTableauToFoundation(self) ==
    IF PromotableColumns(self) = {} THEN Outcome(self, FALSE)
    ELSE LET index == SetMin(PromotableColumns(self))
             card == Top(self.tableau[index])
             popped == [self EXCEPT !.tableau[index] = Pop(@)]
         IN  Outcome(FlipTableauIfNeeded(MoveToFoundation(popped, card), index), TRUE)

\* The priority try_move_waste_to_tableau gives a column that accepts the card.
TargetPriority(column) ==
    IF column = <<>> THEN 2
    ELSE IF \E i \in DOMAIN column : ~column[i].face_up THEN 3
    ELSE IF Top(column).face_up THEN 1
    ELSE 0

\* A choice that takes the first column that accepts the card.
BestTargetFirstAccepting(self, card) ==
    LET accepting == {index \in 1..7 : CanStackOnTableau(card, self.tableau[index])}
    IN  IF accepting = {} THEN 0 ELSE SetMin(accepting)

\* The column try_move_waste_to_tableau picks (0 when none accepts the card):
\* the first index among those of the highest priority.
BestTarget(self, card) ==
    LET accepting == {index \in 1..7 : CanStackOnTableau(card, self.tableau[index])}
        best == {index \in accepting :
                    \A other \in accepting :
                        TargetPriority(self.tableau[other]) <= TargetPriority(self.tableau[index])}
    IN  IF accepting = {} THEN 0 ELSE SetMin(best)

\* A move that forgets to take the card off the waste.
TryMoveWasteToTableauKeepingWaste(self) ==
    IF self.waste = <<>> THEN Outcome(self, FALSE)
    ELSE LET best_target == BestTarget(self, Top(self.waste))
         IN  IF best_target = 0 THEN Outcome(self, FALSE)
             ELSE Outcome([self EXCEPT
                              !.tableau[best_target] = Append(@, Top(self.waste)),
                              !.moves = @ + 1],
                          TRUE)

\* KlondikeSolver.try_move_waste_to_tableau
TryMoveWasteToTableau(self) ==
    IF self.waste = <<>> THEN Outcome(self, FALSE)
    ELSE LET best_target == BestTarget(self, Top(self.waste))
         IN  IF best_target = 0 THEN Outcome(self, FALSE)
             ELSE Outcome([self EXCEPT
                              !.tableau[best_target] = Append(@, Top(self.waste)),
                              !.waste = Pop(@),
                              !.moves = @ + 1],
                          TRUE)

\* Index (from 1) of the first face-up card of a column, 0 when there is none.
FirstFaceUp(column) ==
    IF \E i \in DOMAIN column : column[i].face_up
    THEN SetMin({i \in DOMAIN column : column[i].face_up})
    ELSE 0

\* A test that lets any run go onto a card that accepts it, and a King's
\* run into an empty column, whether or not the move uncovers a card.
StackMoveAllowedWithoutUncovering(self, src_index, dest_index) ==
    LET column == self.tableau[src_index]
        first_face_up == FirstFaceUp(column)
        dest_column == self.tableau[dest_index]
    IN  /\ column # <<>>
        /\ first_face_up # 0
        /\ dest_index # src_index
        /\ CanStackOnTableau(column[first_face_up], dest_column)

\* A test that never lets a run go to an empty column.
StackMoveAllowedOntoCardsOnly(self, src_index, dest_index) ==
    LET column == self.tableau[src_index]
        first_face_up == FirstFaceUp(column)
        dest_column == self.tableau[dest_index]
        has_hidden_card == first_face_up > 1
    IN  /\ column # <<>>
        /\ first_face_up # 0
        /\ dest_index # src_index
        /\ dest_column # <<>>
        /\ CanStackOnTableau(column[first_face_up], dest_column)
        /\ has_hidden_card

\* The test try_move_tableau_to_tableau applies to a source and a destination.
StackMoveAllowed(self, src_index, dest_index) ==
    LET column == self.tableau[src_index]
        first_face_up == FirstFaceUp(column)
        dest_column == self.tableau[dest_index]
        has_hidden_card == first_face_up > 1
    IN  /\ column # <<>>
        /\ first_face_up # 0
        /\ dest_index # src_index
        /\ CanStackOnTableau(column[first_face_up], dest_column)
        /\ ~(dest_column # <<>> /\ ~has_hidden_card)
        /\ ~(dest_column = <<>> /\ (column[first_face_up].rank # 13 \/ ~has_hidden_card))

\* KlondikeSolver.try_move_tableau_to_tableau
TryMoveTableauToTableau(self) ==
    LET sources == {src \in 1..7 : \E dest \in 1..7 : StackMoveAllowed(self, src, dest)}
    IN  IF sources = {} THEN Outcome(self, FALSE)
        ELSE LET src_index == SetMin(sources)
                 dest_index == SetMin({dest \in 1..7 : StackMoveAllowed(self, src_index, dest)})
             IN  Outcome(MoveStack(self, src_index, FirstFaceUp(self.tableau[src_index]),
                                   dest_index),
                         TRUE)

\* A pass that looks at the tableau before it looks at the waste.
ForcedMoveTableauFirst(self) ==
    LET waste_up == TryPromoteWasteToFoundation(self)
        tableau_up == TryPromoteTableauToFoundation(self)
        waste_down == TryMoveWasteToTableau(self)
    IN  IF tableau_up.ret THEN tableau_up
        ELSE IF waste_up.ret THEN waste_up
        ELSE IF waste_down.ret THEN waste_down
        ELSE TryMoveTableauToTableau(self)

\* One pass of the loop of resolve_forced_moves: the first of the four
\* attempts that succeeds, or ret = FALSE when none does.
ForcedMove(self) ==
    LET waste_up == TryPromoteWasteToFoundation(self)
        tableau_up == TryPromoteTableauToFoundation(self)
        waste_down == TryMoveWasteToTableau(self)
    IN  IF waste_up.ret THEN waste_up
        ELSE IF tableau_up.ret THEN tableau_up
        ELSE IF waste_down.ret THEN waste_down
        ELSE TryMoveTableauToTableau(self)

RECURSIVE ResolveFrom(_, _)
ResolveFrom(self, moved) ==
    LET pass == ForcedMove(self)
    IN  IF pass.ret THEN ResolveFrom(pass.self, TRUE) ELSE Outcome(self, moved)

\* A resolution that stops after the first forced move.
ResolveForcedMovesOnce(self) == ForcedMove(self)

\* KlondikeSolver.resolve_forced_moves
ResolveForcedMoves(self) == ResolveFrom(self, FALSE)

\* KlondikeSolver.foundation_count
FoundationCount(self) ==
    Len(self.foundations["spades"]) + Len(self.foundations["hearts"])
        + Len(self.foundations["clubs"]) + Len(self.foundations["diamonds"])

\* KlondikeSolver.is_won
IsWon(self) == FoundationCount(self) = 52

\* An iteration that gives up when the stock is empty, without recycling.
PlayIterationWithoutRecycle(self) ==
    LET forced == ResolveForcedMoves(self)
        drawn == DrawFromStock(self)
    IN  IF forced.ret THEN Outcome(forced.self, TRUE)
        ELSE IF drawn.ret THEN Outcome(drawn.self, TRUE)
        ELSE Outcome(self, FALSE)

\* One iteration of the loop of play(), after `steps += 1`: the instance it
\* leaves and whether the loop goes on (FALSE: the `break`).
PlayIteration(self) ==
    LET forced == ResolveForcedMoves(self)
        drawn == DrawFromStock(self)
        recycled == RecycleStock(self)
    IN  IF forced.ret THEN Outcome(forced.self, TRUE)
        ELSE IF drawn.ret THEN Outcome(drawn.self, TRUE)
        ELSE IF recycled.ret THEN Outcome(recycled.self, TRUE)
        ELSE Outcome(self, FALSE)

\* A result that counts the waste with the stock.
PlayResultLumpingWaste(self, steps) ==
    [won |-> IsWon(self),
     moves |-> self.moves,
     passes_used |-> self.passes_used,
     seed |-> self.shuffle_seed,
     draw_count |-> self.draw_count,
     foundations |-> FoundationCount(self),
     stock_remaining |-> Len(self.stock) + Len(self.waste),
     waste |-> Len(self.waste),
     steps |-> steps]

\* The mapping play() returns.
PlayResult(self, steps) ==
    [won |-> IsWon(self),
     moves |-> self.moves,
     passes_used |-> self.passes_used,
     seed |-> self.shuffle_seed,
     draw_count |-> self.draw_count,
     foundations |-> FoundationCount(self),
     stock_remaining |-> Len(self.stock),
     waste |-> Len(self.waste),
     steps |-> steps]

----------------------------------------------------------------------------
(* Inputs of the solver                                                    *)

GivenDeck(cards) == [given |-> TRUE, cards |-> cards]

\* The custom deck of the tests: 52 identical Aces of Hearts.
AcesDeck == [i \in 1..52 |-> Card(1, "hearts", FALSE)]

\* The cards at the given positions (from 0) of the ordered deck.
DeckOf(positions) == [i \in 1..Len(positions) |-> OrderedDeck[positions[i] + 1]]

\* A caller-supplied full deck that the greedy play wins: the tableau holds
\* spades, hearts and the two low clubs in promotion order, the stock the
\* rest.  Every other card is passed face-up.
WinningDeck ==
    LET cards == DeckOf(<<28, 29, 30, 31, 32, 33, 34, 35, 36, 37, 38, 39, 40, 41, 42, 43,
                          44, 45, 46, 47, 48, 49, 50, 51, 0, 1, 2, 3, 4, 5, 6, 7, 8, 9, 10,
                          11, 12, 13, 14, 15, 16, 17, 18, 19, 20, 21, 22, 23, 24, 25, 26, 27>>)
    IN  [i \in 1..Len(cards) |-> [cards[i] EXCEPT !.face_up = (i % 2 = 0)]]

\* A caller-supplied deck of 31 cards: the deal leaves a stock of three.
ShortDeck ==
    DeckOf(<<39, 19, 41, 49, 32, 44, 4, 46, 25, 42, 11, 26, 7, 1, 36, 6, 13, 51, 38, 43,
             50, 45, 31, 10, 20, 17, 9, 5, 24, 0, 27>>)

\* A caller-supplied deck of 30 cards: the deal shows the black sixes on
\* columns 1 and 2 and the black tens on columns 4 and 5, and leaves a stock
\* of two, the nine of diamonds under the five of hearts.
StackingDeck ==
    DeckOf(<<47, 17, 38, 1, 2, 3, 6, 7, 8, 51, 10, 11, 12, 14, 15, 35, 16, 18, 19, 20,
             9, 21, 22, 23, 25, 24, 27, 31, 28, 5>>)

DeckInputs ==
    {[given |-> FALSE], GivenDeck(AcesDeck), GivenDeck(WinningDeck), GivenDeck(ShortDeck),
     GivenDeck(StackingDeck)}

\* Seeds given to the constructor (one of them beyond 32 bits).
SeedInputs == {<<12345>>, <<7, 0, 1>>}

\* The constructor's default shuffle_seed (0); explicit decks are built with it.
DefaultSeed == <<0>>

DrawCountConfigs == {1, 3, 24}

----------------------------------------------------------------------------
(* State                                                                   *)

VARIABLES
    profile,    \* rules engine: the RuleProfile under evaluation
    state,      \* rules engine: the state snapshot of the last call
    move,       \* rules engine: the move of the last call
    answer,     \* rules engine: the last call and what it returned or raised
    solver,     \* the KlondikeSolver instance (its attributes)
    frame,      \* the activation of play(): pc, steps, max_steps
    called      \* the last solver method called and what it returned

rulesVars == <<profile, state, move, answer>>
solverVars == <<solver, frame, called>>
vars == <<profile, state, move, answer, solver, frame, called>>

NotCalled == [op |-> "none"]
Idle == [pc |-> "idle", steps |-> 0, max_steps |-> 0]
Constructed == [op |-> "__init__"]

----------------------------------------------------------------------------
(* The rules engine as a state machine: a profile is built, then queried   *)

InitRules ==
    /\ profile \in Profiles
    /\ state = EmptyState
    /\ move = EmptyMove
    /\ answer = NotCalled
    /\ solver = [draw_count |-> 0] /\ frame = Idle /\ called = Constructed

CallIsMoveLegal ==
    /\ answer = NotCalled
    /\ \E s \in States, m \in Moves :
        /\ state' = s
        /\ move' = m
        /\ answer' = [op |-> "is_move_legal", out |-> IsMoveLegal(profile, s, m)]
    /\ UNCHANGED <<profile, solverVars>>

CallPassesRemaining ==
    /\ answer = NotCalled
    /\ \E s \in States :
        /\ state' = s
        /\ answer' = [op |-> "passes_remaining", out |-> PassesRemaining(profile, s)]
    /\ UNCHANGED <<profile, move, solverVars>>

CallPassLimit ==
    /\ answer = NotCalled
    /\ answer' = [op |-> "pass_limit", out |-> PassLimit(profile)]
    /\ UNCHANGED <<profile, state, move, solverVars>>

\* profile.pass_limit read a second time.
CallPassLimitAgain ==
    /\ answer.op = "pass_limit"
    /\ answer' = [op |-> "pass_limit_again", first |-> answer.out, out |-> PassLimit(profile)]
    /\ UNCHANGED <<profile, state, move, solverVars>>

\* _normalise_pass_limit applied to the limit that profile.pass_limit gave.
CallNormaliseAgain ==
    /\ answer.op = "pass_limit"
    /\ answer.out.kind = "return"
    /\ answer' = [op |-> "_normalise_pass_limit", first |-> answer.out,
                  out |-> NormalisePassLimit(answer.out.value)]
    /\ UNCHANGED <<profile, state, move, solverVars>>

\* RuleProfile.from_json on the text profile.to_json() wrote, or on that
\* text with a zero put before the draw count, which is no JSON.
CallFromJson ==
    /\ answer = NotCalled
    /\ \E payload \in {ToJson(profile), [ToJson(profile) EXCEPT !.draw = <<"0">> \o @]} :
        answer' = [op |-> "from_json", payload |-> payload, out |-> FromJson(payload)]
    /\ UNCHANGED <<profile, state, move, solverVars>>

\* RuleProfile.from_dict({**profile.to_dict(), **extras})
CallFromDict ==
    /\ answer = NotCalled
    /\ \E extras \in ExtraKeyInputs :
        answer' = [op |-> "from_dict", extras |-> DOMAIN extras,
                   out |-> FromDict([k \in DOMAIN extras \cup ProfileFields |->
                                       IF k \in DOMAIN extras THEN extras[k]
                                       ELSE ToDict(profile)[k]])]
    /\ UNCHANGED <<profile, state, move, solverVars>>

NextRules ==
    \/ CallIsMoveLegal \/ CallPassesRemaining \/ CallPassLimit \/ CallPassLimitAgain
    \/ CallNormaliseAgain \/ CallFromJson \/ CallFromDict

SpecRules == InitRules /\ [][NextRules]_vars

----------------------------------------------------------------------------
(* The solver as a state machine                                           *)

Init ==
    /\ profile = [draw |-> PyNone] /\ state = EmptyState /\ move = EmptyMove
    /\ answer = NotCalled
    /\ \E dc \in {PyInt(d) : d \in DrawCountConfigs \cup {0}}
                    \cup {PyBool(TRUE), PyBool(FALSE), PyFloat(1), PyFloat(7)},
          pl \in {PyNone} \cup {PyInt(i) : i \in -1..MaxSolverPasses},
          seed \in SeedInputs \cup {DefaultSeed}, deck \in DeckInputs :
        /\ deck.given <=> seed = DefaultSeed
        /\ NewSolver(dc, pl, seed, deck).kind = "return"
        /\ solver = NewSolver(dc, pl, seed, deck).value
    /\ frame = Idle
    /\ called = Constructed

\* A bool-returning method called directly by the owner of the instance.
Direct(name, outcome) ==
    /\ frame.pc = "idle"
    /\ solver.moves < MaxMoves
    /\ solver' = outcome.self
    /\ called' = [op |-> name, ret |-> outcome.ret]
    /\ UNCHANGED <<frame, rulesVars>>

\* setup() called again by the owner: a fresh deal.
CallSetup ==
    /\ frame.pc = "idle"
    /\ solver.base_rng.shuffles < MaxDeals
    /\ called.op # "__init__" /\ called.op # "setup"
    /\ solver' = Setup(solver)
    /\ called' = [op |-> "setup"]
    /\ UNCHANGED <<frame, rulesVars>>

CallDrawFromStock == Direct("draw_from_stock", DrawFromStock(solver))
\* recycle_stock called by the owner (it counts no move, so one more call is
\* let through after the last move).
CallRecycleStock ==
    /\ frame.pc = "idle"
    /\ solver.moves <= MaxMoves
    /\ solver' = RecycleStock(solver).self
    /\ called' = [op |-> "recycle_stock", ret |-> RecycleStock(solver).ret]
    /\ UNCHANGED <<frame, rulesVars>>
CallTryPromoteWasteToFoundation ==
    Direct("try_promote_waste_to_foundation", TryPromoteWasteToFoundation(solver))
CallTryPromoteTableauToFoundation ==
    Direct("try_promote_tableau_to_foundation", TryPromoteTableauToFoundation(solver))
CallTryMoveWasteToTableau ==
    Direct("try_move_waste_to_tableau", TryMoveWasteToTableau(solver))
CallTryMoveTableauToTableau ==
    Direct("try_move_tableau_to_tableau", TryMoveTableauToTableau(solver))
CallResolveForcedMoves == Direct("resolve_forced_moves", ResolveForcedMoves(solver))

\* The primitives called by the owner: they test nothing and return None.
\* move_to_foundation is handed a card of the owner's making (the Ace or the
\* 5 of hearts), or the top card of the first column, which stays there.
CallMoveToFoundation ==
    /\ frame.pc = "idle"
    /\ solver.moves < MaxPrimitiveMoves
    /\ \E card \in {Card(1, "hearts", FALSE), Card(5, "hearts", FALSE)}
                    \cup (IF solver.tableau[1] # <<>> THEN {Top(solver.tableau[1])} ELSE {}) :
            solver' = MoveToFoundation(solver, card)
    /\ called' = [op |-> "move_to_foundation"]
    /\ UNCHANGED <<frame, rulesVars>>

\* move_stack is handed (columns and start counted from 1) the last card of
\* the deal onto the first column, a whole column onto the next one, or an
\* empty slice of a column onto itself.
CallMoveStack ==
    /\ frame.pc = "idle"
    /\ solver.moves < MaxPrimitiveMoves
    /\ \E m \in {<<7, 7, 1>>, <<4, 1, 5>>, <<3, 4, 3>>} :
            solver' = MoveStack(solver, m[1], m[2], m[3])
    /\ called' = [op |-> "move_stack"]
    /\ UNCHANGED <<frame, rulesVars>>

CallFlipTableauIfNeeded ==
    /\ frame.pc = "idle"
    /\ solver.moves < MaxPrimitiveMoves
    /\ \E index \in 1..7 : solver' = FlipTableauIfNeeded(solver, index)
    /\ called' = [op |-> "flip_tableau_if_needed"]
    /\ UNCHANGED <<frame, rulesVars>>

\* play(max_steps=n) is entered: steps = 0.
PlayCall ==
    /\ frame.pc = "idle"
    /\ solver.moves < MaxMoves
    /\ \E n \in 0..MaxSteps : frame' = [pc |-> "loop", steps |-> 0, max_steps |-> n]
    /\ called' = [op |-> "play"]
    /\ UNCHANGED <<solver, rulesVars>>

\* A loop whose test lets an iteration start when steps = max_steps.
PlayLoopOffByOne ==
    /\ frame.pc = "loop"
    /\ frame.steps <= frame.max_steps /\ ~IsWon(solver)
    /\ LET iteration == PlayIteration(solver)
       IN  /\ solver' = iteration.self
           /\ frame' = [frame EXCEPT !.steps = @ + 1,
                                     !.pc = IF iteration.ret THEN "loop" ELSE "break"]
    /\ UNCHANGED <<called, rulesVars>>

\* One iteration of the while loop of play().
PlayLoop ==
    /\ frame.pc = "loop"
    /\ frame.steps < frame.max_steps /\ ~IsWon(solver)
    /\ LET iteration == PlayIteration(solver)
       IN  /\ solver' = iteration.self
           /\ frame' = [frame EXCEPT !.steps = @ + 1,
                                     !.pc = IF iteration.ret THEN "loop" ELSE "break"]
    /\ UNCHANGED <<called, rulesVars>>

\* The loop of play() is over (its test failed, or it broke out): return.
PlayReturn ==
    /\ \/ frame.pc = "break"
       \/ frame.pc = "loop" /\ ~(frame.steps < frame.max_steps /\ ~IsWon(solver))
    /\ called' = [op |-> "play", ret |-> PlayResult(solver, frame.steps)]
    /\ frame' = [frame EXCEPT !.pc = "idle"]
    /\ UNCHANGED <<solver, rulesVars>>

\* The solver driven through the operations of the game: each of them tests
\* the move it makes.
NextGame ==
    \/ CallSetup
    \/ CallDrawFromStock
    \/ CallRecycleStock
    \/ CallTryPromoteWasteToFoundation
    \/ CallTryPromoteTableauToFoundation
    \/ CallTryMoveWasteToTableau
    \/ CallTryMoveTableauToTableau
    \/ CallResolveForcedMoves
    \/ PlayCall
    \/ PlayLoop
    \/ PlayReturn

\* The operations of the game and the primitives that move the solver's own
\* cards: all but move_to_foundation, which takes its card from the caller.
NextMoves ==
    \/ NextGame
    \/ CallMoveStack
    \/ CallFlipTableauIfNeeded

SpecMoves == Init /\ [][NextMoves]_vars

\* The solver driven through every public method that changes it.
Next ==
    \/ NextMoves
    \/ CallMoveToFoundation

Spec == Init /\ [][Next]_vars

----------------------------------------------------------------------------
(* A whole game: play() called once, with its default cap, on a fresh deal *)

\* The default of play(max_steps=...).
DefaultMaxSteps == 5000

\* play() is called on the instance as the constructor left it.
PlayDefault ==
    /\ frame.pc = "idle"
    /\ called.op = "__init__"
    /\ frame' = [pc |-> "loop", steps |-> 0, max_steps |-> DefaultMaxSteps]
    /\ called' = [op |-> "play"]
    /\ UNCHANGED <<solver, rulesVars>>

NextPlay ==
    \/ PlayDefault
    \/ PlayLoop
    \/ PlayReturn

\* The interpreter runs the call to its end: an enabled step is taken.
SpecPlay ==
    /\ Init
    /\ [][NextPlay]_vars
    /\ WF_vars(PlayDefault) /\ WF_vars(PlayLoop) /\ WF_vars(PlayReturn)

----------------------------------------------------------------------------
(* The loops of resolve_forced_moves and play(), one pass at a time        *)

\* resolve_forced_moves is called by the owner of the instance: moved = False.
ResolveEnter ==
    /\ frame.pc = "idle"
    /\ solver.moves < MaxMoves
    /\ frame' = [pc |-> "resolve", steps |-> 0, max_steps |-> 0,
                 caller |-> "owner", moved |-> FALSE]
    /\ called' = [op |-> "resolve_forced_moves"]
    /\ UNCHANGED <<solver, rulesVars>>

\* The test of the while loop of play() passes: steps += 1, then
\* resolve_forced_moves is called.
PlayEnterIteration ==
    /\ frame.pc = "loop"
    /\ frame.steps < frame.max_steps /\ ~IsWon(solver)
    /\ frame' = [pc |-> "resolve", steps |-> frame.steps + 1, max_steps |-> frame.max_steps,
                 caller |-> "play", moved |-> FALSE]
    /\ UNCHANGED <<solver, called, rulesVars>>

\* One pass of the loop of resolve_forced_moves in which an attempt
\* succeeds: moved = True; continue.
ResolvePass ==
    /\ frame.pc = "resolve"
    /\ ForcedMove(solver).ret
    /\ solver' = ForcedMove(solver).self
    /\ frame' = [frame EXCEPT !.moved = TRUE]
    /\ UNCHANGED <<called, rulesVars>>

\* The pass in which the four attempts fail: break; return moved (to the
\* owner of the instance).
ResolveReturn ==
    /\ frame.pc = "resolve" /\ frame.caller = "owner"
    /\ ~ForcedMove(solver).ret
    /\ called' = [op |-> "resolve_forced_moves", ret |-> frame.moved]
    /\ frame' = Idle
    /\ UNCHANGED <<solver, rulesVars>>

\* resolve_forced_moves returns to play(): continue when it moved, else
\* draw, else recycle, else break.
PlayAfterResolve ==
    /\ frame.pc = "resolve" /\ frame.caller = "play"
    /\ ~ForcedMove(solver).ret
    /\ LET drawn == DrawFromStock(solver)
           recycled == RecycleStock(solver)
           after == IF frame.moved THEN Outcome(solver, TRUE)
                    ELSE IF drawn.ret THEN Outcome(drawn.self, TRUE)
                    ELSE IF recycled.ret THEN Outcome(recycled.self, TRUE)
                    ELSE Outcome(solver, FALSE)
       IN  /\ solver' = after.self
           /\ frame' = [pc |-> IF after.ret THEN "loop" ELSE "break",
                        steps |-> frame.steps, max_steps |-> frame.max_steps]
    /\ UNCHANGED <<called, rulesVars>>

NextSteps ==
    \/ CallDrawFromStock
    \/ CallRecycleStock
    \/ CallMoveToFoundation
    \/ CallMoveStack
    \/ CallFlipTableauIfNeeded
    \/ ResolveEnter
    \/ ResolvePass
    \/ ResolveReturn
    \/ PlayCall
    \/ PlayEnterIteration
    \/ PlayAfterResolve
    \/ PlayReturn

SpecSteps == Init /\ [][NextSteps]_vars

----------------------------------------------------------------------------
(* Claims about the rules engine (checked under SpecRules)                 *)

ModelledActions ==
    {s_type_draw, s_stock_pass, s_supermove, s_foundation_to_tableau, s_peek, s_autoplay,
     s_undo}

IsText(v) == v.t = "str" /\ v.s # <<>>

\* The move carries a discriminant: a non-empty string as its type, or, when
\* it has no type (missing, None or empty), as its action.
HasDiscriminant(m) ==
    \/ IsText(m["type"])
    \/ m["type"] \in {Absent, PyNone, PyStr(s_empty)} /\ IsText(m["action"])

Discriminant(m) == IF IsText(m["type"]) THEN m["type"].s ELSE m["action"].s

\* The move carries a draw_count that is not the profile's draw.
DeclaresOtherDraw(m, p) ==
    LET d == m["draw_count"]
    IN  \/ d.t = "int" /\ d.i # p.draw.i
        \/ d.t = "bool" /\ (IF d.b THEN 1 ELSE 0) # p.draw.i
        \/ d.t = "float" /\ d.twice # 2 * p.draw.i
        \/ d.t = "str"

\* The move {"type": "stock_pass"} and nothing else.
StockPassMove == [EmptyMove EXCEPT !["type"] = PyStr(s_stock_pass)]

Answered(op) == answer.op = op

\* C1: a move that carries a discriminant and a draw_count different from
\* the profile's draw is illegal, whatever its action type (modelled or not)
\* and whatever the other flags of the profile are.
C1_DrawCountVeto ==
    (Answered("is_move_legal") /\ HasDiscriminant(move) /\ DeclaresOtherDraw(move, profile))
        => answer.out = Return(PyBool(FALSE))

\* C1 witness: a supermove that the STANDARD profile would allow, refused
\* because it declares draw_count = 1 against draw = 3.
C1_Witness ==
    /\ Answered("is_move_legal")
    /\ profile = STANDARD
    /\ move = [EmptyMove EXCEPT !["type"] = PyStr(s_supermove), !["draw_count"] = PyInt(1)]
    /\ answer.out = Return(PyBool(FALSE))

\* C2 as claimed: every move whose action type is not one of the seven
\* modelled actions is legal.
C2_OpenWorldAsClaimed ==
    (Answered("is_move_legal") /\ HasDiscriminant(move)
        /\ Lower(Discriminant(move)) \notin ModelledActions)
        => answer.out = Return(PyBool(TRUE))

\* C2 amended: every move whose action type (lower-cased) is not one of the
\* seven modelled actions, and which carries no draw_count or one equal to
\* the profile's draw, is legal.
C2_OpenWorldDefault ==
    (Answered("is_move_legal") /\ HasDiscriminant(move)
        /\ Lower(Discriminant(move)) \notin ModelledActions
        /\ ~DeclaresOtherDraw(move, profile))
        => answer.out = Return(PyBool(TRUE))

\* C2 witness: an unmodelled action type with a matching draw_count is
\* allowed by a profile that forbids take-backs, peeks and unsafe autoplay.
C2_Witness ==
    /\ Answered("is_move_legal")
    /\ profile = STANDARD
    /\ move = [EmptyMove EXCEPT !["type"] = PyStr(s_custom), !["draw_count"] = PyInt(3)]
    /\ answer.out = Return(PyBool(TRUE))

\* C3: for a profile whose pass limit normalises to an integer L and a state
\* whose passes_made is an integer n >= 0, a stock_pass is legal iff n < L;
\* when the limit normalises to unlimited it is legal for every n.  The named
\* token "three", the numeric string "5" and the integer 2 normalise to 3, 5
\* and 2.
C3_StockPassBoundary ==
    /\ TestProfile(PyStr(s_three)) \in Profiles /\ TestProfile(PyStr(s_5)) \in Profiles
    /\ TestProfile(PyInt(2)) \in Profiles
    /\ profile.passes = PyStr(s_three) => PassLimit(profile) = Return(PyInt(3))
    /\ profile.passes = PyStr(s_5) => PassLimit(profile) = Return(PyInt(5))
    /\ profile.passes = PyInt(2) => PassLimit(profile) = Return(PyInt(2))
    /\ (Answered("is_move_legal") /\ move = StockPassMove
            /\ state["passes_made"].t = "int" /\ state["passes_made"].i >= 0
            /\ PassLimit(profile).kind = "return")
        => LET limit == PassLimit(profile).value
               n == state["passes_made"].i
           IN  answer.out = Return(PyBool(limit = PyNone \/ n < limit.i))

\* C3 witness: the last legal pass of the STANDARD profile ("three"): n = 2.
C3_Witness ==
    /\ Answered("is_move_legal")
    /\ profile = STANDARD
    /\ move = StockPassMove
    /\ state["passes_made"] = PyInt(2)
    /\ answer.out = Return(PyBool(TRUE))

\* C4 as claimed: for every state, a stock_pass is legal exactly when
\* passes_remaining(state) is None or greater than 0, and evaluating it never
\* raises (the pass count being read defensively from passes_made, else
\* stock_passes, else pass_count).
C4_DefensivePassCount ==
    (Answered("is_move_legal") /\ move = StockPassMove /\ PassLimit(profile).kind = "return")
        => LET remaining == PassesRemaining(profile, state).value
           IN  answer.out = Return(PyBool(remaining = PyNone \/ remaining.i > 0))

----------------------------------------------------------------------------
(* Claims about the solver (checked under Spec)                            *)

Suits == DOMAIN SUIT_COLORS

\* The cards of a pile without their face: (rank, suit) pairs.
Faces(pile) == {<<pile[i].rank, pile[i].suit>> : i \in 1..Len(pile)}

\* The state is the one setup() left: the constructor or a later setup()
\* was the last operation.
AfterSetup == called.op \in {"__init__", "setup"}

\* The deck that is dealt has 52 cards.
FullDeck == ~solver.initial_deck.given \/ Len(solver.initial_deck.cards) = 52

\* C5: immediately after setup() on a 52-card deck, column i (0..6) holds
\* i+1 cards of which exactly the last is face-up, the stock holds the 24
\* remaining cards, all face-down, waste and foundations are empty, and
\* moves and passes_used are 0; of a shuffled deck no card is lost or dealt
\* twice.
C5_DealInvariant ==
    (AfterSetup /\ FullDeck) =>
        /\ \A c \in 1..7 :
            /\ Len(solver.tableau[c]) = c
            /\ \A r \in 1..c : solver.tableau[c][r].face_up <=> (r = c)
        /\ Len(solver.stock) = 24
        /\ \A i \in 1..Len(solver.stock) : ~solver.stock[i].face_up
        /\ solver.waste = <<>>
        /\ \A suit \in Suits : solver.foundations[suit] = <<>>
        /\ solver.moves = 0 /\ solver.passes_used = 0
        /\ ~solver.initial_deck.given =>
            Cardinality(Faces(solver.stock)
                        \cup UNION {Faces(solver.tableau[c]) : c \in 1..7}) = 52

\* C5 witness: setup() called again on an instance that shuffles its own
\* deck and has been operated on: the second deal of its generator.
C5_Witness ==
    /\ called.op = "setup"
    /\ ~solver.initial_deck.given
    /\ solver.base_rng.shuffles = 2
    /\ Len(solver.stock) = 24

InPlay == frame.pc # "idle"

\* What one step of the program does to the step counter of play().
StepCounting ==
    /\ (~InPlay /\ InPlay') => frame'.steps = 0
    /\ (InPlay /\ InPlay') =>
        /\ frame'.max_steps = frame.max_steps
        /\ frame'.steps = frame.steps + 1
    /\ (InPlay /\ solver' # solver) =>
        /\ frame'.steps = frame.steps + 1
        /\ frame'.steps <= frame.max_steps
    /\ (InPlay /\ ~InPlay') =>
        /\ called'.op = "play"
        /\ called'.ret.steps = frame.steps
        /\ called'.ret.steps >= 0 /\ called'.ret.steps <= frame.max_steps

\* C7: play(max_steps=N) never runs more than N iterations of its loop: the
\* counter starts at 0, every iteration (whatever number of moves it
\* applies) adds exactly one to it, the instance changes in counted
\* iterations only, the counter never exceeds N, and the returned steps is
\* the counter, between 0 and N.
C7_StepCap ==
    /\ [](frame.steps >= 0 /\ frame.steps <= frame.max_steps)
    /\ [][StepCounting]_vars

\* C7 witness: play() returned at the cap without a win, after iterations
\* that applied more moves than there were steps.
C7_Witness ==
    /\ called.op = "play" /\ ~InPlay
    /\ frame.max_steps > 0
    /\ called.ret.steps = frame.max_steps
    /\ ~called.ret.won
    /\ called.ret.moves > MaxMoves + called.ret.steps

FinitePassLimit == solver.pass_limit # PyNone

\* A step that is a call of recycle_stock() made when the limit is reached
\* is refused and leaves the piles and the count alone.
RecycleRefusedAtLimit ==
    (called'.op = "recycle_stock" /\ FinitePassLimit
        /\ solver.passes_used >= solver.pass_limit.i)
        => /\ called'.ret = FALSE
           /\ solver'.stock = solver.stock
           /\ solver'.waste = solver.waste
           /\ solver'.passes_used = solver.passes_used

\* With pass_limit = 1: the first recycle after the stock is exhausted
\* succeeds, and the call that immediately follows it fails.
RecycleOnceOnly ==
    /\ (called'.op = "recycle_stock" /\ solver.pass_limit = PyInt(1)
            /\ solver.passes_used = 0 /\ solver.stock = <<>> /\ solver.waste # <<>>)
        => called'.ret = TRUE /\ solver'.passes_used = 1
    /\ (called.op = "recycle_stock" /\ called.ret = TRUE /\ solver.pass_limit = PyInt(1)
            /\ called'.op = "recycle_stock")
        => called'.ret = FALSE

\* C8: with a finite pass_limit L, passes_used <= L in every reachable
\* state; once passes_used has reached L, recycle_stock() returns False and
\* leaves stock, waste and passes_used unchanged; with pass_limit = 1 the
\* first recycle after exhausting the stock returns True and the next False.
C8_PassLimit ==
    /\ [](FinitePassLimit => solver.passes_used <= solver.pass_limit.i)
    /\ [][RecycleRefusedAtLimit /\ RecycleOnceOnly]_vars

\* C8 witness: a recycle refused because of the limit alone (the waste
\* holds cards), after the one recycle that pass_limit = 1 allows.
C8_Witness ==
    /\ called.op = "recycle_stock" /\ called.ret = FALSE
    /\ solver.pass_limit = PyInt(1) /\ solver.passes_used = 1
    /\ solver.waste # <<>>

\* Each foundation holds the cards of its suit, ranks 1..k from the bottom.
FoundationsInOrder ==
    \A suit \in Suits :
        \A i \in 1..Len(solver.foundations[suit]) :
            /\ solver.foundations[suit][i].suit = suit
            /\ solver.foundations[suit][i].rank = i

IsPrefix(a, b) == Len(a) <= Len(b) /\ a = SubSeq(b, 1, Len(a))

\* Within a deal (any step but a new setup()) each foundation only grows.
FoundationsOnlyGrow ==
    called'.op # "setup" =>
        \A suit \in Suits : IsPrefix(solver.foundations[suit], solver'.foundations[suit])

\* C9 as claimed: in every reachable state each foundation holds only cards of its
\* suit, exactly the ranks 1..k in ascending order without gaps (so that a
\* card is only ever promoted onto the card one rank below it, or as an Ace
\* onto an empty pile), and within a deal no card leaves a foundation.
C9_FoundationInvariant ==
    /\ []FoundationsInOrder
    /\ [][FoundationsOnlyGrow]_vars

\* Within a column: face-down cards below face-up cards, the top card
\* face-up, and every face-up card on a face-up card of the other colour and
\* of the next rank.
ColumnInOrder(column) ==
    /\ \A i \in 1..(Len(column) - 1) : column[i].face_up => column[i + 1].face_up
    /\ column # <<>> => Top(column).face_up
    /\ \A i \in 1..(Len(column) - 1) :
        (column[i].face_up /\ column[i + 1].face_up) =>
            /\ Color(column[i + 1]) # Color(column[i])
            /\ column[i + 1].rank = column[i].rank - 1

TableauInOrder == \A c \in 1..7 : ColumnInOrder(solver.tableau[c])

\* Within a deal, a column that gets a new bottom card (because it was
\* empty, or was emptied within the step) gets a King.
OnlyKingsOnEmptyColumns ==
    called'.op # "setup" =>
        \A c \in 1..7 :
            LET old == solver.tableau[c]
                new == solver'.tableau[c]
            IN  (new # <<>> /\ (old = <<>> \/ Faces(<<old[1]>>) # Faces(<<new[1]>>)))
                    => new[1].rank = 13

\* C10 as claimed: in every reachable state each column has its face-down cards below
\* its face-up cards, its top card face-up, and its face-up cards in
\* alternating colours and descending consecutive ranks; a card or run is
\* placed on an empty column only when its base card is a King.
C10_TableauInvariant ==
    /\ []TableauInOrder
    /\ [][OnlyKingsOnEmptyColumns]_vars

----------------------------------------------------------------------------
(* Claims about whole games (checked under SpecPlay)                       *)

\* The stuck condition: no forced move applies, the stock cannot be drawn
\* and the waste cannot be recycled.
Stuck(self) ==
    /\ ~ResolveForcedMoves(self).ret
    /\ self.stock = <<>>
    /\ (self.waste = <<>>
        \/ (self.pass_limit # PyNone /\ self.passes_used >= self.pass_limit.i))

GameOver == IsWon(solver) \/ Stuck(solver)

Returned == called.op = "play" /\ ~InPlay

\* C11 as claimed: for every deal and configuration, play() returns only
\* once the game is won or stuck: the step cap is never what ends a game.
C11_WinOrStuckAsClaimed == Returned => GameOver

\* Number of cards in a family of piles.
Size(piles) ==
    Cardinality({<<p, i>> \in (DOMAIN piles) \X (1..52) : i <= Len(piles[p])})

CardsDealt == IF solver.initial_deck.given THEN Len(solver.initial_deck.cards) ELSE 52

\* C12: the mapping play() returns describes the state the loop ended in:
\* won iff 52 cards lie on the foundations; foundations, stock_remaining
\* and waste are the sizes of those piles and, with the tableau, add up to
\* the cards dealt; moves and passes_used are the counters; draw_count is
\* the configured value; seed is the seed this instance was constructed
\* with, reduced modulo 2^32: the one it keeps and seeded its generator with.
\* Checked under SpecMoves, where the cards on the table are those dealt.
C12_OutputContract ==
    Returned =>
        LET ret == called.ret
        IN  /\ ret.won <=> (Size(solver.foundations) = 52)
            /\ ret.foundations = Size(solver.foundations)
            /\ ret.stock_remaining = Len(solver.stock)
            /\ ret.waste = Len(solver.waste)
            /\ ret.foundations + ret.stock_remaining + ret.waste + Size(solver.tableau)
                = CardsDealt
            /\ ret.moves = solver.moves
            /\ ret.passes_used = solver.passes_used
            /\ ret.draw_count = solver.draw_count /\ ret.draw_count \in DrawCountConfigs
            /\ ret.seed = solver.shuffle_seed /\ ret.seed = solver.base_rng.seed
            /\ Len(ret.seed) = 2
            /\ \E seed \in SeedInputs \cup {DefaultSeed} :
                ret.seed = <<Limb(seed, 1), Limb(seed, 2)>>

\* C12 witness: play() returned from a game in progress, built with the
\* seed 2^32 + 7, with cards on the foundations, in the stock and in the
\* waste.
C12_Witness ==
    /\ Returned /\ ~called.ret.won
    /\ called.ret.seed = <<7, 0>>
    /\ called.ret.foundations > 0 /\ called.ret.waste > 0 /\ called.ret.stock_remaining > 0
    /\ called.ret.moves > 0

----------------------------------------------------------------------------
(* Claims about the pass limit of a profile (checked under SpecRules)      *)

\* What the accepted spellings of a pass limit stand for.
AcceptedPassLimits ==
    {<<PyNone, PyNone>>,
     <<PyStr(s_empty), PyNone>>, <<PyStr(<<" ", "\r", "U+00A0">>), PyNone>>,
     <<PyStr(s_unlimited), PyNone>>, <<PyStr(s_infinite), PyNone>>,
     <<PyStr(s_max_relax), PyNone>>,
     <<PyStr(<<"U", "N", "L", "I", "M", "I", "T", "E", "D">>), PyNone>>,
     <<PyStr(s_three), PyInt(3)>>, <<PyStr(s_triple), PyInt(3)>>,
     <<PyStr(<<" ", "T", "h", "r", "e", "e", " ">>), PyInt(3)>>,
     <<PyStr(s_one), PyInt(1)>>, <<PyStr(s_single), PyInt(1)>>,
     <<PyStr(s_none), PyInt(0)>>,
     <<PyStr(s_5), PyInt(5)>>, <<PyStr(<<" ", "2", " ">>), PyInt(2)>>,
     <<PyStr(<<"\f", "2", "U+001F">>), PyInt(2)>>, <<PyStr(<<"U+0663">>), PyInt(3)>>}

NoneOrNatural(v) == v = PyNone \/ (v.t = "int" /\ v.i >= 0)

\* C13: pass_limit is None for passes = None, a blank string and the tokens
\* unlimited, infinite, max_relax; 3 for three and triple; 1 for one and
\* single; 0 for none (tokens trimmed and lower-cased first); n for the
\* integer n >= 0 and for a decimal string denoting n.  Whatever it returns
\* is None or a non-negative integer.
C13_PassLimitNormalisation ==
    /\ \A pair \in AcceptedPassLimits : pair[1] \in PassesInputs
    /\ Answered("pass_limit") =>
        /\ \A pair \in AcceptedPassLimits :
            profile.passes = pair[1] => answer.out = Return(pair[2])
        /\ (profile.passes.t = "int" /\ profile.passes.i >= 0)
            => answer.out = Return(PyInt(profile.passes.i))
        /\ answer.out.kind = "return" => NoneOrNatural(answer.out.value)

\* C13 witness: the padded, capitalised token " Three " yields 3.
C13_Witness ==
    /\ Answered("pass_limit")
    /\ profile.passes = PyStr(<<" ", "T", "h", "r", "e", "e", " ">>)
    /\ answer.out = Return(PyInt(3))

\* C14 as claimed: for a profile whose passes is a finite non-negative
\* float f, pass_limit returns f truncated toward zero (4.0 gives 4), and a
\* stock_pass is then legal iff passes_made is below that limit (3 is legal
\* and 4 is not for 4.0).
C14_FloatPassLimit ==
    /\ (Answered("pass_limit") /\ profile.passes.t = "float" /\ profile.passes.twice >= 0)
        => answer.out = Return(PyInt(profile.passes.twice \div 2))
    /\ (Answered("is_move_legal") /\ move = StockPassMove /\ profile.passes = PyFloat(8)
            /\ state["passes_made"].t = "int" /\ state["passes_made"].i >= 0)
        => answer.out = Return(PyBool(state["passes_made"].i < 4))

\* Strings that do not denote a non-negative integer and are no token.
RejectedStrings == {PyStr(<<"-", "1">>), PyStr(s_bogus), PyStr(<<"3", ".", "5">>)}

\* C15 as claimed: pass_limit never returns a value for an invalid passes:
\* it raises ValueError for a negative integer, a negative numeric string,
\* an unparseable string and a NaN or infinite float, and TypeError for a
\* boolean.
C15_PassLimitErrorClasses ==
    /\ RejectedStrings \cup {PyNaN, PyInf, PyBool(TRUE), PyInt(-1)} \subseteq PassesInputs
    /\ Answered("pass_limit") =>
        /\ (profile.passes.t = "int" /\ profile.passes.i < 0)
            => answer.out = Raise("ValueError")
        /\ profile.passes \in RejectedStrings => answer.out = Raise("ValueError")
        /\ profile.passes \in {PyNaN, PyInf} => answer.out = Raise("ValueError")
        /\ profile.passes.t = "bool" => answer.out = Raise("TypeError")

\* The recorded pass count of a state: the first of passes_made,
\* stock_passes and pass_count that is there.
Missing(v) == v \in {Absent, PyNone}

Recorded(s) ==
    IF ~Missing(s["passes_made"]) THEN s["passes_made"]
    ELSE IF ~Missing(s["stock_passes"]) THEN s["stock_passes"]
    ELSE s["pass_count"]

\* What a recorded value counts for: a non-negative integer for itself, the
\* string "2" for 2, anything else (missing, negative, boolean, not a
\* number) for 0.
CountsFor(v) ==
    IF v.t = "int" /\ v.i >= 0 THEN v.i
    ELSE IF v = PyStr(<<"2">>) THEN 2
    ELSE 0

\* C16: for a profile with a valid passes value, passes_remaining(state) is
\* None iff pass_limit is None, and otherwise max(0, limit - n), never
\* negative, n being what the recorded pass count of the state counts for.
C16_PassesRemaining ==
    (Answered("passes_remaining") /\ PassLimit(profile).kind = "return") =>
        LET limit == PassLimit(profile).value
            n == CountsFor(Recorded(state))
        IN  /\ answer.out.kind = "return"
            /\ (answer.out.value = PyNone) <=> (limit = PyNone)
            /\ answer.out.value # PyNone => answer.out.value.i >= 0
            /\ (limit # PyNone /\ Recorded(state).t # "float")
                => answer.out.value = PyInt(IF limit.i - n > 0 THEN limit.i - n ELSE 0)

\* C16 witness: STANDARD (limit 3) and a state that records its passes under
\* stock_passes only, as many as the limit: nothing remains.
C16_Witness ==
    /\ Answered("passes_remaining")
    /\ profile = STANDARD
    /\ Missing(state["passes_made"]) /\ state["stock_passes"] = PyInt(MaxPassLimit)
    /\ answer.out = Return(PyInt(0))

\* C19: normalising a limit that normalisation returned gives that limit
\* again, reading pass_limit a second time gives what the first reading gave
\* (a value or an error), and neither changes the profile.
C19_NormalisationIdempotent ==
    /\ [](Answered("_normalise_pass_limit") => answer.out = answer.first)
    /\ [](Answered("pass_limit_again") => answer.out = answer.first)
    /\ [][(CallPassLimit \/ CallPassLimitAgain \/ CallNormaliseAgain)
            => profile' = profile]_vars

\* C19 witness: "none" normalises to 0 passes, and 0 normalises to 0 again.
C19_Witness ==
    /\ Answered("_normalise_pass_limit")
    /\ profile.passes = PyStr(s_none)
    /\ answer.first = Return(PyInt(0))
    /\ answer.out = Return(PyInt(0))

----------------------------------------------------------------------------
(* Claims about supermoves                                                 *)

\* The strength a move declares: its mode, else its strength, else standard,
\* in lower case.
DeclaredStrength(m) ==
    IF IsText(m["mode"]) THEN Lower(m["mode"].s)
    ELSE IF IsText(m["strength"]) THEN Lower(m["strength"].s)
    ELSE s_standard

\* none = 0, standard = 1, relaxed = 2, and any other token weighs 1.
Weight(token) == IF token = s_none THEN 0 ELSE IF token = s_relaxed THEN 2 ELSE 1

SupermoveAnswered ==
    /\ Answered("is_move_legal")
    /\ HasDiscriminant(move) /\ Lower(Discriminant(move)) = s_supermove
    /\ ~DeclaresOtherDraw(move, profile)

\* C18: a supermove without a conflicting draw_count is legal exactly when
\* the weight of its declared strength is at most the weight of the profile's
\* supermove setting; so a relaxed supermove is legal under MAX_RELAX and
\* under no other preset.
C18_SupermoveStrength ==
    /\ SupermoveAnswered
            => answer.out = Return(PyBool(Weight(DeclaredStrength(move))
                                          <= Weight(profile.supermove.s)))
    /\ (SupermoveAnswered /\ profile \in Presets /\ DeclaredStrength(move) = s_relaxed)
            => answer.out = Return(PyBool(profile = MAX_RELAX))

\* C18 witness: under STANDARD a move whose mode is RELAXED and whose strength
\* is none is refused: the mode is read first, in any case of letters.
C18_Witness ==
    /\ SupermoveAnswered
    /\ profile = STANDARD
    /\ move["mode"] = PyStr(<<"R", "E", "L", "A", "X", "E", "D">>)
    /\ move["strength"] = PyStr(s_none)
    /\ answer.out = Return(PyBool(FALSE))

----------------------------------------------------------------------------
(* Claims about serialisation                                              *)

\* C17: every canonical preset survives to_json followed by from_json field
\* for field, and from_dict given the seven fields of a profile plus any
\* unknown extra keys builds that profile, the extra keys being ignored.
C17_SerialisationRoundTrip ==
    /\ (Answered("from_json") /\ answer.payload = ToJson(profile) /\ profile \in Presets)
            => answer.out = Return(profile)
    /\ Answered("from_dict") => answer.out = Return(profile)

\* C17 witness: MAX_RELAX has come back from its JSON text, in which the
\* draw count is the text 1 and the passes the quoted text "unlimited".
C17_Witness ==
    /\ Answered("from_json")
    /\ answer.payload = ToJson(profile)
    /\ profile = MAX_RELAX
    /\ ToJson(profile).draw = <<"1">>
    /\ ToJson(profile).passes = <<"\"">> \o s_unlimited \o <<"\"">>
    /\ ToJson(profile).undo_unlimited = <<"t", "r", "u", "e">>
    /\ answer.out = Return(MAX_RELAX)

----------------------------------------------------------------------------
(* Claims about forced-move resolution                                     *)

\* The waste top or a face-up column top can go to its foundation.
Promotable(self) ==
    \/ self.waste # <<>> /\ CanMoveToFoundation(self, Top(self.waste))
    \/ \E index \in 1..7 :
            /\ self.tableau[index] # <<>>
            /\ Top(self.tableau[index]).face_up
            /\ CanMoveToFoundation(self, Top(self.tableau[index]))

\* None of the four forced-move kinds applies.
Quiescent(self) ==
    /\ ~Promotable(self)
    /\ ~TryMoveWasteToTableau(self).ret
    /\ ~TryMoveTableauToTableau(self).ret

\* C20: when resolve_forced_moves returns, no forced move of any of the four
\* kinds applies; it returns True exactly when it changed the layout; and
\* when a card could be promoted at the call, a foundation holds a card
\* afterwards that it did not hold before.
C20_ForcedMovesQuiescence ==
    /\ [](called.op = "resolve_forced_moves" => Quiescent(solver))
    /\ [][called'.op = "resolve_forced_moves"
            => /\ called'.ret <=> solver' # solver
               /\ called'.ret <=> ~Quiescent(solver)
               /\ Promotable(solver)
                    => /\ FoundationCount(solver') > FoundationCount(solver)
                       /\ FoundationCount(solver') >= 1]_vars

\* C20 witness: the deck of 52 aces of hearts, resolved right after the deal:
\* one ace has gone up, the other column tops are aces that cannot follow.
C20_Witness ==
    /\ called.op = "resolve_forced_moves" /\ called.ret
    /\ solver.initial_deck = GivenDeck(AcesDeck)
    /\ solver.foundations["hearts"] = <<Card(1, "hearts", TRUE)>>
    /\ FoundationCount(solver) = 1
    /\ Top(solver.tableau[2]) = Card(1, "hearts", TRUE)
    /\ Quiescent(solver)

----------------------------------------------------------------------------
(* Claims about the order of the moves (checked under SpecSteps)           *)

\* The four kinds of forced move, from the highest priority to the lowest,
\* and whether each can be made in a layout.
WasteToFoundationApplies(self) ==
    self.waste # <<>> /\ CanMoveToFoundation(self, Top(self.waste))

TableauToFoundationApplies(self) ==
    \E index \in 1..7 :
        /\ self.tableau[index] # <<>>
        /\ Top(self.tableau[index]).face_up
        /\ CanMoveToFoundation(self, Top(self.tableau[index]))

WasteToTableauApplies(self) ==
    /\ self.waste # <<>>
    /\ \E index \in 1..7 : CanStackOnTableau(Top(self.waste), self.tableau[index])

TableauToTableauApplies(self) ==
    \E src \in 1..7, dest \in 1..7 : StackMoveAllowed(self, src, dest)

\* The layout after the move of the highest priority that applies; the
\* layout itself when none does.
AfterHighestPriorityMove(self) ==
    IF WasteToFoundationApplies(self) THEN TryPromoteWasteToFoundation(self).self
    ELSE IF TableauToFoundationApplies(self) THEN TryPromoteTableauToFoundation(self).self
    ELSE IF WasteToTableauApplies(self) THEN TryMoveWasteToTableau(self).self
    ELSE IF TableauToTableauApplies(self) THEN TryMoveTableauToTableau(self).self
    ELSE self

NoForcedMoveApplies(self) ==
    /\ ~WasteToFoundationApplies(self) /\ ~TableauToFoundationApplies(self)
    /\ ~WasteToTableauApplies(self) /\ ~TableauToTableauApplies(self)

\* A pass of the loop of resolve_forced_moves changes the layout by the
\* move of the highest priority that applies, found by a scan that starts
\* again from the waste-to-foundation kind.
ForcedMovesInPriorityOrder ==
    (frame.pc = "resolve" /\ frame'.pc = "resolve")
        => /\ ~NoForcedMoveApplies(solver)
           /\ solver' = AfterHighestPriorityMove(solver)
           /\ solver' # solver

\* In play(), cards are drawn only in an iteration whose resolution moved
\* nothing, and the waste is recycled only when, besides, the stock is empty.
DrawAndRecycleComeLast ==
    (frame.pc = "resolve" /\ frame.caller = "play" /\ frame'.pc # "resolve")
        => /\ solver' # solver
                => ~frame.moved /\ NoForcedMoveApplies(solver)
           /\ Len(solver'.stock) < Len(solver.stock)
                => solver' = DrawFromStock(solver).self
           /\ solver'.passes_used # solver.passes_used
                => solver.stock = <<>> /\ solver' = RecycleStock(solver).self

\* C21: every move made inside resolve_forced_moves is of the highest
\* priority kind that applies in the layout it is made in (waste to
\* foundation, tableau to foundation, waste to tableau, tableau to tableau),
\* the scan starting again after each move; and play() draws only in an
\* iteration without forced move, and recycles only when it cannot draw either.
C21_StrictPriority ==
    [][ForcedMovesInPriorityOrder /\ DrawAndRecycleComeLast]_vars

\* C21 witness: the 52 aces of hearts, three drawn, then a resolution: the
\* ace on the waste went up first, although the ace of column 1 could.
C21_Witness ==
    /\ frame.pc = "resolve" /\ frame.moved
    /\ solver.initial_deck = GivenDeck(AcesDeck)
    /\ solver.draw_count = 3
    /\ Len(solver.waste) = 2
    /\ Len(solver.foundations["hearts"]) = 1
    /\ Len(solver.tableau[1]) = 1

----------------------------------------------------------------------------
(* Claims about the single moves (checked under Spec)                      *)

\* Number of face-down cards of a column.
Hidden(column) == Cardinality({i \in DOMAIN column : ~column[i].face_up})

\* The run of a column: its cards from the first face-up one, which is the
\* maximal face-up run wherever the hidden cards lie beneath the others.
Run(column) ==
    IF FirstFaceUp(column) = 0 THEN <<>>
    ELSE SubSeq(column, FirstFaceUp(column), Len(column))

\* The base card of the run of column src is accepted by column dest.
RunAccepted(self, src, dest) ==
    /\ src # dest
    /\ Run(self.tableau[src]) # <<>>
    /\ CanStackOnTableau(Head(Run(self.tableau[src])), self.tableau[dest])

\* The move uncovers a card: the run lies on hidden cards.
RunUncovers(self, src) == FirstFaceUp(self.tableau[src]) > 1

TableauMoveCalled == called'.op = "try_move_tableau_to_tableau"

\* C22 as claimed: whenever the base card of the run of a column is accepted
\* by the top card of another, non-empty, column, try_move_tableau_to_tableau
\* moves a run and returns True; and a run goes to an empty column only if
\* the move uncovers a hidden card or the base of the run is a King.
C22_TableauMoveAsClaimed ==
    [][TableauMoveCalled
        => /\ (\E src \in 1..7, dest \in 1..7 :
                    RunAccepted(solver, src, dest) /\ solver.tableau[dest] # <<>>)
                => called'.ret /\ solver' # solver
           /\ \A src \in 1..7, dest \in 1..7 :
                (/\ solver.tableau[dest] = <<>>
                 /\ solver'.tableau[dest] = Run(solver.tableau[src])
                 /\ Run(solver.tableau[src]) # <<>>)
                    => RunUncovers(solver, src) \/ Head(Run(solver.tableau[src])).rank = 13]_vars

\* The pairs try_move_tableau_to_tableau may pick: the run is accepted by
\* the destination and lies on at least one hidden card.
MovableRuns(self) ==
    {pair \in (1..7) \X (1..7) :
        RunAccepted(self, pair[1], pair[2]) /\ RunUncovers(self, pair[1])}

\* The first pair in index order: lowest source, then lowest destination.
FirstPair(pairs) ==
    CHOOSE pair \in pairs :
        \A other \in pairs :
            pair[1] < other[1] \/ (pair[1] = other[1] /\ pair[2] <= other[2])

\* C22: try_move_tableau_to_tableau returns True exactly when the run of some
\* column lies on a hidden card and its base is accepted by another column
\* (by the top card of a non-empty column, or, for a King, by an empty
\* column); it then moves the run of the first such source onto the first
\* such destination, turns the uncovered card face-up and counts one move;
\* otherwise it returns False and changes nothing.  A run without hidden
\* card beneath is never moved.
C22_TableauMove ==
    [][TableauMoveCalled
        => /\ called'.ret <=> MovableRuns(solver) # {}
           /\ ~called'.ret => solver' = solver
           /\ called'.ret =>
                LET src == FirstPair(MovableRuns(solver))[1]
                    dest == FirstPair(MovableRuns(solver))[2]
                    column == solver.tableau[src]
                    left == SubSeq(column, 1, FirstFaceUp(column) - 1)
                IN  /\ solver'.tableau[dest] = solver.tableau[dest] \o Run(column)
                    /\ solver'.tableau[src] =
                            [left EXCEPT ![Len(left)] = FaceUp(left[Len(left)])]
                    /\ \A other \in (1..7) \ {src, dest} :
                            solver'.tableau[other] = solver.tableau[other]
                    /\ solver'.moves = solver.moves + 1
                    /\ solver'.stock = solver.stock /\ solver'.waste = solver.waste
                    /\ solver'.foundations = solver.foundations]_vars

\* C22 witness: try_move_tableau_to_tableau has just moved a run: the card
\* it uncovered lies face-up on top of a column.
C22_Witness ==
    /\ called.op = "try_move_tableau_to_tableau" /\ called.ret
    /\ solver.moves = 1
    /\ \E src \in 1..7 :
            /\ Len(solver.tableau[src]) = src - 1
            /\ solver.tableau[src] # <<>>
            /\ Hidden(solver.tableau[src]) = src - 2
            /\ Top(solver.tableau[src]).face_up

\* Everything but the stock, the waste and the move counter is as it was.
OnlyStockAndWasteChange ==
    /\ solver'.tableau = solver.tableau
    /\ solver'.foundations = solver.foundations
    /\ solver'.passes_used = solver.passes_used

\* C23: draw_from_stock on a non-empty stock takes min(draw_count, |stock|)
\* cards off the top of the stock, one at a time, and puts each face-up on
\* the waste, so that the last card drawn is the top of the waste; it counts
\* one move and returns True.  On an empty stock it returns False and
\* changes nothing.
C23_DrawSemantics ==
    [][called'.op = "draw_from_stock"
        => IF solver.stock = <<>>
           THEN ~called'.ret /\ solver' = solver
           ELSE LET n == IF solver.draw_count < Len(solver.stock)
                         THEN solver.draw_count ELSE Len(solver.stock)
                IN  /\ called'.ret
                    /\ Len(solver'.stock) = Len(solver.stock) - n
                    /\ \A i \in 1..Len(solver'.stock) : solver'.stock[i] = solver.stock[i]
                    /\ Len(solver'.waste) = Len(solver.waste) + n
                    /\ \A i \in 1..Len(solver.waste) : solver'.waste[i] = solver.waste[i]
                    /\ \A k \in 1..n :
                            solver'.waste[Len(solver.waste) + k]
                                = FaceUp(solver.stock[Len(solver.stock) - k + 1])
                    /\ solver'.moves = solver.moves + 1
                    /\ OnlyStockAndWasteChange]_vars

\* C23 witness: a stock of three cards drawn with draw_count = 24: the three
\* cards lie on the waste, the stock is empty.
C23_Witness ==
    /\ called.op = "draw_from_stock" /\ called.ret
    /\ solver.initial_deck = GivenDeck(ShortDeck)
    /\ solver.draw_count = 24
    /\ solver.stock = <<>>
    /\ Len(solver.waste) = 3
    /\ solver.waste[3] = FaceUp(ShortDeck[1])
    /\ solver.moves = 1

\* The waste has been turned back into the stock.
Recycled == solver'.passes_used = solver.passes_used + 1

\* C24 as claimed: whoever calls recycle_stock, play() or the owner of the
\* instance after any draws, the waste is turned back into the stock only
\* when the stock is empty, the waste is not, and the pass limit, if there
\* is one, has not been reached.
C24_RecyclePrecondition ==
    [][Recycled
        => /\ solver.stock = <<>>
           /\ solver.waste # <<>>
           /\ solver.pass_limit = PyNone \/ solver.passes_used < solver.pass_limit.i]_vars

\* The instance after draw_from_stock has been called until the stock is empty.
RECURSIVE DrawnOut(_)
DrawnOut(self) == IF self.stock = <<>> THEN self ELSE DrawnOut(DrawFromStock(self).self)

\* C25: a recycle from an empty stock leaves the waste empty and the stock
\* equal to the former waste turned over (reversed, every card face-down),
\* counts one pass and no move, and touches nothing else; drawing the whole
\* stock again then rebuilds the waste exactly as it was.
C25_RecycleKeepsDrawOrder ==
    [][(Recycled /\ solver.stock = <<>>)
        => /\ solver'.waste = <<>>
           /\ Len(solver'.stock) = Len(solver.waste)
           /\ \A i \in 1..Len(solver.waste) :
                /\ ~solver'.stock[i].face_up
                /\ FaceUp(solver'.stock[i]) = solver.waste[Len(solver.waste) - i + 1]
           /\ solver'.moves = solver.moves
           /\ solver'.tableau = solver.tableau
           /\ solver'.foundations = solver.foundations
           /\ DrawnOut(solver').waste = solver.waste]_vars

\* C25 witness: the three cards of a short stock, drawn one by one, have
\* been recycled: they lie face-down in the stock, the last one drawn lowest.
C25_Witness ==
    /\ called.op = "recycle_stock" /\ called.ret
    /\ solver.initial_deck = GivenDeck(ShortDeck)
    /\ solver.draw_count = 1
    /\ solver.waste = <<>>
    /\ solver.passes_used = 1
    /\ solver.moves = 3
    /\ solver.stock = <<FaceDown(ShortDeck[1]), FaceDown(ShortDeck[2]), FaceDown(ShortDeck[3])>>

\* The columns on which the top card of the waste can be stacked.
Accepting(self) ==
    IF self.waste = <<>> THEN {}
    ELSE {index \in 1..7 : CanStackOnTableau(Top(self.waste), self.tableau[index])}

\* 3 for a column with a hidden card, 2 for an empty column, 1 otherwise.
Priority(column) == IF Hidden(column) > 0 THEN 3 ELSE IF column = <<>> THEN 2 ELSE 1

\* The lowest index among the accepting columns of the highest priority.
Preferred(self) ==
    CHOOSE index \in Accepting(self) :
        \A other \in Accepting(self) :
            \/ Priority(self.tableau[other]) < Priority(self.tableau[index])
            \/ (Priority(self.tableau[other]) = Priority(self.tableau[index])
                    /\ index <= other)

\* C26: try_move_waste_to_tableau moves the top card of the waste onto the
\* accepting column of the highest priority (3: a hidden card beneath, 2:
\* empty, 1: any other), the lowest index among equals; the card goes to
\* that column only and one move is counted.  When no column accepts the
\* card (or the waste is empty) it returns False and changes nothing.
C26_WasteTarget ==
    [][called'.op = "try_move_waste_to_tableau"
        => IF Accepting(solver) = {}
           THEN ~called'.ret /\ solver' = solver
           ELSE /\ called'.ret
                /\ solver'.tableau[Preferred(solver)]
                        = Append(solver.tableau[Preferred(solver)], Top(solver.waste))
                /\ \A other \in (1..7) \ {Preferred(solver)} :
                        solver'.tableau[other] = solver.tableau[other]
                /\ solver'.waste = Pop(solver.waste)
                /\ solver'.moves = solver.moves + 1
                /\ solver'.stock = solver.stock
                /\ solver'.foundations = solver.foundations
                /\ solver'.passes_used = solver.passes_used]_vars

\* C26 witness: the five of hearts has gone onto the six of clubs of column
\* 2, which covers a hidden card, and not onto the six of spades that is
\* alone on column 1.
C26_Witness ==
    /\ called.op = "try_move_waste_to_tableau" /\ called.ret
    /\ solver.initial_deck = GivenDeck(StackingDeck)
    /\ solver.tableau[1] = <<Card(6, "spades", TRUE)>>
    /\ solver.tableau[2] = <<Card(3, "clubs", FALSE), Card(6, "clubs", TRUE),
                              Card(5, "hearts", TRUE)>>

----------------------------------------------------------------------------
(* Claims about the cards as a whole                                       *)

\* How many times the card (rank, suit) occurs in a pile.
Copies(pile, rank, suit) ==
    Cardinality({i \in DOMAIN pile : pile[i].rank = rank /\ pile[i].suit = suit})

\* How many times it occurs on the table: columns, stock, waste, foundations.
OnTable(self, rank, suit) ==
    Copies(self.stock, rank, suit) + Copies(self.waste, rank, suit)
        + Copies(self.tableau[1], rank, suit) + Copies(self.tableau[2], rank, suit)
        + Copies(self.tableau[3], rank, suit) + Copies(self.tableau[4], rank, suit)
        + Copies(self.tableau[5], rank, suit) + Copies(self.tableau[6], rank, suit)
        + Copies(self.tableau[7], rank, suit)
        + Copies(self.foundations["spades"], rank, suit)
        + Copies(self.foundations["hearts"], rank, suit)
        + Copies(self.foundations["clubs"], rank, suit)
        + Copies(self.foundations["diamonds"], rank, suit)

\* The deck the instance deals: the one it was given, or the 52 cards.
DeckDealt(self) == IF self.initial_deck.given THEN self.initial_deck.cards ELSE OrderedDeck

\* C27: after setup() and after every operation that moves the solver's own
\* cards (draw_from_stock, recycle_stock, the try_* moves, move_stack,
\* resolve_forced_moves, play), each card occurs on the table (columns,
\* stock, waste, foundations) as many times as in the deck that was dealt:
\* none is lost, none is doubled, and the sizes of the piles add up to the
\* size of the deck (52 for a standard deck).  Checked under SpecMoves.
C27_CardConservation ==
    /\ \A rank \in 1..13, suit \in Suits :
            OnTable(solver, rank, suit) = Copies(DeckDealt(solver), rank, suit)
    /\ Size(solver.tableau) + Len(solver.stock) + Len(solver.waste)
            + Size(solver.foundations) = Len(DeckDealt(solver))

\* C27 witness: move_stack, called by the owner on a shuffled deal, has put
\* the whole fourth column, hidden cards included, onto the fifth, and a
\* card has been promoted since.
C27_Witness ==
    /\ ~solver.initial_deck.given
    /\ solver.tableau[4] = <<>>
    /\ Hidden(solver.tableau[5]) = 7
    /\ FoundationCount(solver) > 0
    /\ Size(solver.tableau) + Len(solver.stock) + Len(solver.waste)
            + Size(solver.foundations) = 52

----------------------------------------------------------------------------
(* Claims about termination                                                *)

\* Number of face-down cards on the tableau.
HiddenCards(self) ==
    Hidden(self.tableau[1]) + Hidden(self.tableau[2]) + Hidden(self.tableau[3])
        + Hidden(self.tableau[4]) + Hidden(self.tableau[5]) + Hidden(self.tableau[6])
        + Hidden(self.tableau[7])

\* What a resolution can still do: cards to promote, waste cards to play,
\* hidden cards to turn.
ForcedWork(self) ==
    (Len(DeckDealt(self)) - FoundationCount(self)) + Len(self.waste) + HiddenCards(self)

\* A pass of the loop of resolve_forced_moves that moves a card adds a card
\* to a foundation, takes a card off the waste or turns a hidden card, and
\* undoes none of these.
PassProgresses ==
    (frame.pc = "resolve" /\ frame'.pc = "resolve")
        => /\ \/ FoundationCount(solver') > FoundationCount(solver)
              \/ Len(solver'.waste) < Len(solver.waste)
              \/ HiddenCards(solver') < HiddenCards(solver)
           /\ FoundationCount(solver') >= FoundationCount(solver)
           /\ Len(solver'.waste) <= Len(solver.waste)
           /\ HiddenCards(solver') <= HiddenCards(solver)
           /\ ForcedWork(solver') < ForcedWork(solver)

\* C28: the loop of resolve_forced_moves ends: each pass that moves a card
\* lowers a measure that is never negative (cards off the foundations, plus
\* cards on the waste, plus hidden cards), so a resolution makes at most
\* that many moves; no run is carried back and forth.
C28_ResolutionTerminates ==
    /\ [](ForcedWork(solver) >= 0)
    /\ [][PassProgresses]_vars

\* C28 witness: a resolution right after a shuffled deal has moved a run
\* from one column onto another (no card was drawn, none promoted) and
\* turned the card beneath it.
C28_Witness ==
    /\ frame.pc = "resolve" /\ frame.moved
    /\ ~solver.initial_deck.given
    /\ Len(solver.stock) = 24 /\ solver.waste = <<>> /\ solver.passes_used = 0
    /\ FoundationCount(solver) = 0
    /\ solver.moves >= 1
    /\ HiddenCards(solver) < 21

\* What is left to do in a game with a finite pass_limit: cards to promote,
\* cards to turn over, passes to make, cards to draw and to move off the
\* waste.
Remaining(self) ==
    <<52 - FoundationCount(self), HiddenCards(self),
      self.pass_limit.i - self.passes_used, 2 * Len(self.stock) + Len(self.waste)>>

\* Lexicographic order on tuples of four naturals.
LexLess(a, b) ==
    \E k \in 1..4 : a[k] < b[k] /\ \A j \in 1..(k - 1) : a[j] = b[j]

\* Every iteration of the loop of play() that does not break out of it
\* brings the game closer to its end.
IterationProgresses ==
    (InPlay /\ FinitePassLimit /\ frame'.pc = "loop" /\ frame' # frame)
        => /\ LexLess(Remaining(solver'), Remaining(solver))
           /\ \A k \in 1..4 : Remaining(solver')[k] >= 0

\* C29: with a finite pass_limit play() ends by a win or by the stuck
\* condition after a number of iterations that does not depend on
\* max_steps: every iteration that goes on lowers, in lexicographic order,
\* a measure of four naturals (cards off the foundations, hidden cards,
\* passes left, cards to draw and to play from the waste), and play(), run
\* under its default cap, returns won or stuck strictly below the cap.
C29_FinitePassLimitTerminates ==
    /\ []((Returned /\ FinitePassLimit) => (GameOver /\ frame.steps < frame.max_steps))
    /\ [][IterationProgresses]_vars

\* C29 witness: a game lost after the one recycle its pass_limit allows:
\* play() returned stuck, below the cap, with cards left in the waste.
C29_Witness ==
    /\ Returned /\ ~IsWon(solver) /\ Stuck(solver)
    /\ solver.pass_limit = PyInt(1) /\ solver.passes_used = 1
    /\ solver.waste # <<>>
    /\ frame.steps < frame.max_steps

----------------------------------------------------------------------------
(* Claims about dealing again                                              *)

\* The deal the constructor made: that of a generator fresh from the
\* configured seed, or of the deck handed over.
InitialDeal(self) == Setup([self EXCEPT !.base_rng = NewRandom(self.shuffle_seed)])

\* C30: setup() called again on a solver, after any operations, resets moves
\* and passes_used to 0, empties the waste and the foundations, and deals
\* the tableau and the stock of the solver's initial deal.
C30_SetupRedeals ==
    (called.op = "setup")
        => /\ solver.moves = 0 /\ solver.passes_used = 0
           /\ solver.waste = <<>>
           /\ \A suit \in DOMAIN SUIT_COLORS : solver.foundations[suit] = <<>>
           /\ solver.tableau = InitialDeal(solver).tableau
           /\ solver.stock = InitialDeal(solver).stock

====
